---- MODULE Spec2Model ----
(***************************************************************************)
(* Model of the Cloud Run deployment scanner: the Pub/Sub handler          *)
(* process_cloudrun_event (main.py), the scan orchestrator QScannerCloudRun*)
(* (qualys_scanner_cloudrun.py), the StorageHandler (storage_handler.py)   *)
(* and the ImageParser (image_parser.py).                                  *)
(*                                                                         *)
(* Strings of the program are sequences of one-character strings, so that  *)
(* splitting, sanitising and formatting are computed as the code computes  *)
(* them.  The clock counts whole seconds since ModelEpoch,                 *)
(* 2024-01-01T00:00:00 UTC; datetime.utcnow() is that epoch plus `now`.    *)
(***************************************************************************)
EXTENDS Integers, Sequences, FiniteSets, TLC

(***************************************************************************)
(* Characters and generic string operations (Python str methods).         *)
(***************************************************************************)
Digits == <<"0", "1", "2", "3", "4", "5", "6", "7", "8", "9">>

Lowers == <<"a", "b", "c", "d", "e", "f", "g", "h", "i", "j", "k", "l", "m",
            "n", "o", "p", "q", "r", "s", "t", "u", "v", "w", "x", "y", "z">>

Uppers == <<"A", "B", "C", "D", "E", "F", "G", "H", "I", "J", "K", "L", "M",
            "N", "O", "P", "Q", "R", "S", "T", "U", "V", "W", "X", "Y", "Z">>

Range(s) == {s[i] : i \in DOMAIN s}

\* The alphabet of the model: ASCII, Latin-1 (U+0080..U+00FF), and the code
\* points the case mappings of Latin-1 lead to, written by their names:
\* "U+0178" (capital Y with diaeresis), "U+039C" and "U+03BC" (Greek capital
\* and small mu); also "U+0131" (dotless small i), whose upper case is "I".
\* The lower-case letters of Latin-1 that have an upper case in Latin-1
Latin1Lowers == <<"à", "á", "â", "ã", "ä", "å", "æ", "ç", "è", "é",
                  "ê", "ë", "ì", "í", "î", "ï", "ð", "ñ", "ò", "ó",
                  "ô", "õ", "ö", "ø", "ù", "ú", "û", "ü", "ý", "þ">>

\* their upper cases, in the same order
Latin1Uppers == <<"À", "Á", "Â", "Ã", "Ä", "Å", "Æ", "Ç", "È", "É",
                  "Ê", "Ë", "Ì", "Í", "Î", "Ï", "Ð", "Ñ", "Ò", "Ó",
                  "Ô", "Õ", "Ö", "Ø", "Ù", "Ú", "Û", "Ü", "Ý", "Þ">>

\* the letters whose upper case is outside Latin-1 or longer than one
\* character, with the string str.upper() gives for each
SpecialUppers ==
    [c \in {"ß", "ÿ", "µ", "U+03BC", "U+0131"} |->
        CASE c = "ß" -> <<"S", "S">>
          [] c = "ÿ" -> <<"U+0178">>
          [] c = "µ" -> <<"U+039C">>
          [] c = "U+03BC" -> <<"U+039C">>
          [] c = "U+0131" -> <<"I">>]

\* the upper-case letters outside Latin-1, with the string str.lower() gives
SpecialLowers ==
    [c \in {"U+0178", "U+039C"} |->
        CASE c = "U+0178" -> <<"ÿ">>
          [] c = "U+039C" -> <<"U+03BC">>]

\* str.isalnum() on one character; the third line holds the letters and
\* digits of Latin-1 that str.upper() and str.lower() leave alone
IsAlnum(c) ==
    c \in Range(Digits) \cup Range(Lowers) \cup Range(Uppers)
           \cup Range(Latin1Lowers) \cup Range(Latin1Uppers)
           \cup {"ª", "²", "³", "¹", "º", "¼", "½", "¾"}
           \cup DOMAIN SpecialUppers \cup DOMAIN SpecialLowers

\* str.lower() on a one-character string: a string
LowerChar(c) ==
    IF c \in Range(Uppers)
    THEN <<Lowers[CHOOSE i \in DOMAIN Uppers : Uppers[i] = c]>>
    ELSE IF c \in Range(Latin1Uppers)
    THEN <<Latin1Lowers[CHOOSE i \in DOMAIN Latin1Uppers : Latin1Uppers[i] = c]>>
    ELSE IF c \in DOMAIN SpecialLowers THEN SpecialLowers[c]
    ELSE <<c>>

\* str.upper() on a one-character string: a string, of two characters for
\* the sharp s
UpperChar(c) ==
    IF c \in Range(Lowers)
    THEN <<Uppers[CHOOSE i \in DOMAIN Lowers : Lowers[i] = c]>>
    ELSE IF c \in Range(Latin1Lowers)
    THEN <<Latin1Uppers[CHOOSE i \in DOMAIN Latin1Lowers : Latin1Lowers[i] = c]>>
    ELSE IF c \in DOMAIN SpecialUppers THEN SpecialUppers[c]
    ELSE <<c>>

\* str.lower()
RECURSIVE Lower(_)
Lower(s) == IF s = <<>> THEN <<>> ELSE LowerChar(Head(s)) \o Lower(Tail(s))

\* str.upper()
RECURSIVE Upper(_)
Upper(s) == IF s = <<>> THEN <<>> ELSE UpperChar(Head(s)) \o Upper(Tail(s))

\* s[i:] (1-based, i may be Len(s)+1)
Drop(s, i) == SubSeq(s, i, Len(s))

\* does pat occur in s at position i
MatchAt(s, pat, i) ==
    /\ i >= 1
    /\ i + Len(pat) - 1 <= Len(s)
    /\ SubSeq(s, i, i + Len(pat) - 1) = pat

\* pat in s: pat occurs at one of the positions it fits at
Contains(s, pat) == \E i \in 1..(Len(s) - Len(pat) + 1) : MatchAt(s, pat, i)

\* first index where pat occurs in s (pat must occur)
FirstIndex(s, pat) ==
    CHOOSE i \in 1..(Len(s) + 1) :
        /\ MatchAt(s, pat, i)
        /\ \A j \in 1..(i - 1) : ~MatchAt(s, pat, j)

\* last index where pat occurs in s (pat must occur)
LastIndex(s, pat) ==
    CHOOSE i \in 1..(Len(s) + 1) :
        /\ MatchAt(s, pat, i)
        /\ \A j \in (i + 1)..(Len(s) + 1) : ~MatchAt(s, pat, j)

\* s.split(pat) for a non-empty pat: the pieces, left to right
RECURSIVE Split(_, _)
Split(s, pat) ==
    IF Contains(s, pat)
    THEN LET i == FirstIndex(s, pat)
         IN  <<SubSeq(s, 1, i - 1)>> \o Split(Drop(s, i + Len(pat)), pat)
    ELSE <<s>>

\* s.rsplit(pat, 1) when pat occurs in s: <<head, tail>>
RSplit1(s, pat) ==
    LET i == LastIndex(s, pat)
    IN  <<SubSeq(s, 1, i - 1), Drop(s, i + Len(pat))>>

\* sep.join(parts)
RECURSIVE Join(_, _)
Join(parts, sep) ==
    IF Len(parts) = 0 THEN <<>>
    ELSE IF Len(parts) = 1 THEN parts[1]
    ELSE parts[1] \o sep \o Join(Tail(parts), sep)

(***************************************************************************)
(* image_parser.py                                                         *)
(***************************************************************************)
Sha256Marker == <<"@", "s", "h", "a", "2", "5", "6", ":">>

Sha256Prefix == <<"s", "h", "a", "2", "5", "6", ":">>

DockerIo == <<"d", "o", "c", "k", "e", "r", ".", "i", "o">>

Latest == <<"l", "a", "t", "e", "s", "t">>

NoDigest == <<>>

\* the two-target unpacking of image_name.split('@sha256:') raises ValueError
\* when the marker occurs more than once
ParseRaises(image_name) ==
    /\ Contains(image_name, Sha256Marker)
    /\ Len(Split(image_name, Sha256Marker)) # 2

\* FullName keeping the tag form when there is a digest
FullNameTagForm(registry, repository, tag, digest) ==
    registry \o <<"/">> \o repository \o <<":">> \o tag

\* lines 70-72: the full name; a digest is never "" (it carries the sha256:
\* prefix), so `if digest` is `digest is not None`
FullName(registry, repository, tag, digest) ==
    IF digest # NoDigest
    THEN registry \o <<"/">> \o repository \o <<"@">> \o digest
    ELSE registry \o <<"/">> \o repository \o <<":">> \o tag

\* ImageParser.parse for inputs on which it returns
ParseImage(image_name) ==
    LET hasDigest == Contains(image_name, Sha256Marker)
        pieces    == Split(image_name, Sha256Marker)
        name1     == IF hasDigest THEN pieces[1] ELSE image_name
        digest    == IF hasDigest THEN Sha256Prefix \o pieces[2] ELSE NoDigest
        hasTag    == Contains(name1, <<":">>)
        name2     == IF hasTag THEN RSplit1(name1, <<":">>)[1] ELSE name1
        tag       == IF hasTag THEN RSplit1(name1, <<":">>)[2] ELSE Latest
        parts     == Split(name2, <<"/">>)
        registry  ==
            IF Len(parts) = 1 THEN DockerIo
            ELSE IF Len(parts) = 2
                 THEN IF "." \in Range(parts[1]) \/ ":" \in Range(parts[1])
                      THEN parts[1] ELSE DockerIo
                 ELSE parts[1]
        repository ==
            IF Len(parts) = 1 THEN <<"l", "i", "b", "r", "a", "r", "y", "/">> \o parts[1]
            ELSE IF Len(parts) = 2
                 THEN IF "." \in Range(parts[1]) \/ ":" \in Range(parts[1])
                      THEN parts[2] ELSE parts[1] \o <<"/">> \o parts[2]
                 ELSE Join(Tail(parts), <<"/">>)
    IN  [registry |-> registry, repository |-> repository, tag |-> tag,
         digest |-> digest, full_name |-> FullName(registry, repository, tag, digest)]

(***************************************************************************)
(* storage_handler.py: _sanitize_name                                      *)
(***************************************************************************)
SanitizeChar(c) ==
    IF c \in {"/", ":", "@"} THEN "_"
    ELSE IF IsAlnum(c) \/ c \in {"-", "_", "."} THEN c
    ELSE "_"

\* StorageHandler._sanitize_name
SanitizeName(name) == [i \in DOMAIN name |-> SanitizeChar(name[i])]

(***************************************************************************)
(* Clock and datetime formatting.  The formats are exact for the first 31  *)
(* days after ModelEpoch (January 2024).                                   *)
(***************************************************************************)
D2(n) == <<Digits[((n \div 10) % 10) + 1], Digits[(n % 10) + 1]>>

DayOf(t) == (t \div 86400) + 1

HourOf(t) == (t \div 3600) % 24

MinuteOf(t) == (t \div 60) % 60

SecondOf(t) == t % 60

\* datetime.utcnow().strftime('%Y%m%d%H%M%S') at clock value t, a second of
\* January 2024
Strftime(t) ==
    <<"2", "0", "2", "4", "0", "1">>
        \o D2(DayOf(t)) \o D2(HourOf(t)) \o D2(MinuteOf(t)) \o D2(SecondOf(t))

\* datetime.isoformat() at clock value t (microsecond = 0: no fraction is printed)
IsoFormat(t) ==
    <<"2", "0", "2", "4", "-", "0", "1", "-">> \o D2(DayOf(t)) \o <<"T">>
        \o D2(HourOf(t)) \o <<":">> \o D2(MinuteOf(t)) \o <<":">> \o D2(SecondOf(t))

\* code point order of the characters that occur in isoformat strings
IsoChars == <<"-", "0", "1", "2", "3", "4", "5", "6", "7", "8", "9", ":", "T">>

Ord(c) == CHOOSE i \in DOMAIN IsoChars : IsoChars[i] = c

\* a >= b for strings, as the metadata store orders string fields
RECURSIVE StrGeq(_, _)
StrGeq(a, b) ==
    IF Len(b) = 0 THEN TRUE
    ELSE IF Len(a) = 0 THEN FALSE
    ELSE IF a[1] = b[1] THEN StrGeq(Tail(a), Tail(b))
    ELSE Ord(a[1]) > Ord(b[1])

(***************************************************************************)
(* qualys_scanner_cloudrun.py: _generate_job_name                          *)
(***************************************************************************)
\* max_length: the base name keeps at most this many characters
max_length == 50

\* QScannerCloudRun._generate_job_name at clock value t
GenerateJobName(registry, repository, tag, t) ==
    LET name == [i \in DOMAIN repository |->
                     IF repository[i] = "/" THEN "-" ELSE repository[i]]
        raw  == Lower(<<"q", "s", "c", "a", "n", "n", "e", "r", "-">> \o name \o <<"-">> \o tag)
        base == [i \in DOMAIN raw |-> IF IsAlnum(raw[i]) \/ raw[i] = "-" THEN raw[i] ELSE "-"]
    IN  (IF Len(base) > max_length THEN SubSeq(base, 1, max_length) ELSE base)
            \o <<"-">> \o Strftime(t)

(***************************************************************************)
(* Configuration read from the environment, and the bounds of the model.   *)
(***************************************************************************)
\* poll_interval: seconds slept between two status checks
poll_interval == 10

\* SCAN_CACHE_HOURS: the default recency window, in hours
SCAN_CACHE_HOURS == 24

\* SCAN_TIMEOUT configured for the model, in seconds (the default is 1800)
ScanTimeout == 15

\* how many times a whole cache window passes between two images
MaxTicks == 1

\* how many calls to Cloud Run, Firestore, Cloud Storage, Cloud Logging or
\* Pub/Sub fail in one run
MaxFaults == 1

WindowSeconds == 3600 * SCAN_CACHE_HOURS

\* the clock starts one window after ModelEpoch, so every cutoff is on or after it
StartClock == WindowSeconds

\* the function instances, in the order their events arrive
Handlers == {"h1", "h2"}

Earlier(h) == IF h = "h2" THEN {"h1"} ELSE {}

(***************************************************************************)
(* Inputs: image strings, events, scanner outputs.                         *)
(***************************************************************************)
ImgNginx == <<"n", "g", "i", "n", "x">>

\* a container entry without an image
NoImage == <<>>

\* the images of the events: "nginx", "gcr.io/p/a:v1", and a string with two
\* digest markers, on which ImageParser.parse raises
ImageStrings ==
    {ImgNginx,
     <<"g", "c", "r", ".", "i", "o", "/", "p", "/", "a", ":", "v", "1">>,
     <<"a">> \o Sha256Marker \o <<"b">> \o Sha256Marker \o <<"c">>}

RECURSIVE SeqsUpTo(_, _)
SeqsUpTo(S, n) ==
    IF n = 0 THEN {<<>>}
    ELSE LET shorter == SeqsUpTo(S, n - 1)
         IN  shorter \cup {Append(q, x) : q \in {r \in shorter : Len(r) = n - 1}, x \in S}

\* the prefix of the method names of the Cloud Run services API
ServicesApi ==
    <<"g", "o", "o", "g", "l", "e", ".", "c", "l", "o", "u", "d", ".">>
        \o <<"r", "u", "n", ".", "v", "2", ".", "S", "e", "r", "v", "i", "c", "e", "s", ".">>

CreateService == ServicesApi \o <<"C", "r", "e", "a", "t", "e", "S", "e", "r", "v", "i", "c", "e">>

UpdateService == ServicesApi \o <<"U", "p", "d", "a", "t", "e", "S", "e", "r", "v", "i", "c", "e">>

DeleteService == ServicesApi \o <<"D", "e", "l", "e", "t", "e", "S", "e", "r", "v", "i", "c", "e">>

\* method names that contain the name of a deployment operation without being
\* one: a longer operation name, and a name with something in front
CreateServiceSuffixed == CreateService \o <<"R", "e", "v", "i", "s", "i", "o", "n">>

UpdateServicePrefixed == <<"x", ".">> \o UpdateService

\* no 'methodName' in the payload: dict.get yields its default, ''
NoMethodName == <<>>

\* an inbound Pub/Sub event: data is "absent" (no 'data' key), "malformed"
\* (base64 or JSON decoding raises) or "ok" (an audit log was decoded)
Events ==
    {[data |-> "absent", methodName |-> NoMethodName, containers |-> <<>>],
     [data |-> "malformed", methodName |-> NoMethodName, containers |-> <<>>]}
    \cup [data : {"ok"}, methodName : {NoMethodName, DeleteService}, containers : {<<>>}]
    \cup [data : {"ok"}, methodName : {CreateService, UpdateService},
          containers : SeqsUpTo(ImageStrings \cup {NoImage}, 2)]
    \cup [data : {"ok"}, methodName : {CreateServiceSuffixed, UpdateServicePrefixed},
          containers : {<<>>, <<ImgNginx>>}]

\* extract_images_from_service: the truthy images of the containers, in order
extract_images_from_service(containers) == SelectSeq(containers, LAMBDA image : image # NoImage)

\* the method-name filter of process_cloudrun_event (lines 43-44): one of the
\* two operation names occurs in the method name
IsServiceDeployment(methodName) ==
    Contains(methodName, CreateService) \/ Contains(methodName, UpdateService)

(***************************************************************************)
(* qualys_scanner_cloudrun.py: interpreting the scanner output.            *)
(* A raw output is [json |-> FALSE, text |-> t] when json.loads raises     *)
(* JSONDecodeError on it ("" is the empty string) and                      *)
(* [json |-> TRUE, type |-> "object", value |-> d] when it decodes to the   *)
(* object d, a function from its keys to its values;                       *)
(* [json |-> TRUE, type |-> "array", value |-> l] when it decodes to a     *)
(* list.                                                                   *)
(***************************************************************************)
SevCritical == <<"C", "R", "I", "T", "I", "C", "A", "L">>

SevHigh == <<"H", "I", "G", "H">>

SevMedium == <<"M", "E", "D", "I", "U", "M">>

SevLow == <<"L", "O", "W">>

SevInformational == <<"I", "N", "F", "O", "R", "M", "A", "T", "I", "O", "N", "A", "L">>

SevUnknown == <<"U", "N", "K", "N", "O", "W", "N">>

\* NormalizeSeverity passing on what it does not recognise
NormalizeSeverityUnknown(severity) ==
    LET sev == Upper(severity)
    IN  IF sev = <<"5">> THEN SevCritical
        ELSE IF sev = <<"4">> THEN SevHigh
        ELSE IF sev = <<"3">> THEN SevMedium
        ELSE IF sev = <<"2">> THEN SevLow
        ELSE IF sev = <<"1">> THEN SevInformational
        ELSE IF Contains(sev, <<"C", "R", "I", "T">>) THEN SevCritical
        ELSE IF Contains(sev, <<"H", "I", "G", "H">>) THEN SevHigh
        ELSE IF Contains(sev, <<"M", "E", "D">>) THEN SevMedium
        ELSE IF Contains(sev, <<"L", "O", "W">>) THEN SevLow
        ELSE IF Contains(sev, <<"I", "N", "F", "O">>) THEN SevInformational
        ELSE sev

\* QScannerCloudRun._normalize_severity, on str(severity)
NormalizeSeverity(severity) ==
    LET sev == Upper(severity)
    IN  IF sev = <<"5">> THEN SevCritical
        ELSE IF sev = <<"4">> THEN SevHigh
        ELSE IF sev = <<"3">> THEN SevMedium
        ELSE IF sev = <<"2">> THEN SevLow
        ELSE IF sev = <<"1">> THEN SevInformational
        ELSE IF Contains(sev, <<"C", "R", "I", "T">>) THEN SevCritical
        ELSE IF Contains(sev, <<"H", "I", "G", "H">>) THEN SevHigh
        ELSE IF Contains(sev, <<"M", "E", "D">>) THEN SevMedium
        ELSE IF Contains(sev, <<"L", "O", "W">>) THEN SevLow
        ELSE IF Contains(sev, <<"I", "N", "F", "O">>) THEN SevInformational
        ELSE SevMedium

\* the key of vuln_summary a normalized severity names
SeverityKey(sev) ==
    CASE sev = SevCritical -> "CRITICAL"
      [] sev = SevHigh -> "HIGH"
      [] sev = SevMedium -> "MEDIUM"
      [] sev = SevLow -> "LOW"
      [] sev = SevInformational -> "INFORMATIONAL"

EmptyObject == [k \in {} |-> 0]

Has(d, key) == key \in DOMAIN d

\* QScannerCloudRun._parse_qscanner_output
ParseQscannerOutput(output) ==
    IF output.json THEN output.value
    ELSE [status |-> "PARSE_ERROR", raw_output |-> output.text, error |-> "JSONDecodeError"]

\* None: what dict.get yields for a key that is absent, and JSON's null
None == [type |-> "none", value |-> <<>>]

\* a value of the scanner's JSON that is a string
JsonString(s) == [type |-> "str", value |-> s]

\* is a decoded value a dict: the other values (None, a string) are the
\* records with the fields type and value, and have no method get
IsDict(v) == DOMAIN v # {"type", "value"}

\* the characters of a key of the scanner's output
KeyChars(key) ==
    IF key = "vulnerabilities"
    THEN <<"v", "u", "l", "n", "e", "r", "a", "b", "i", "l", "i", "t", "i", "e", "s">>
    ELSE <<"c", "o", "m", "p", "l", "i", "a", "n", "c", "e">>

\* lines 368-369 and 404-405 raise TypeError: the key is not at the top level
\* and what is under 'results' is no dict; `key in` raises on None, and on a
\* string it finds the key as a substring, the subscript then raising
LookupListRaises(scan_results, key) ==
    /\ ~Has(scan_results, key)
    /\ Has(scan_results, "results")
    /\ ~IsDict(scan_results.results)
    /\ scan_results.results.type = "str" =>
           Contains(scan_results.results.value, KeyChars(key))

\* lines 364-369 and 401-405, when they do not raise: the list
\* _parse_vulnerabilities / _parse_compliance iterate over
LookupList(scan_results, key) ==
    IF Has(scan_results, key) THEN scan_results[key]
    ELSE IF /\ Has(scan_results, "results")
            /\ IsDict(scan_results.results)
            /\ Has(scan_results.results, key)
         THEN scan_results.results[key]
         ELSE <<>>

SeverityOf(vuln) == IF Has(vuln, "severity") THEN vuln.severity ELSE SevUnknown

\* the exception _parse_vulnerabilities raises ("" when it returns): the
\* TypeError of line 368, or the AttributeError of lines 372-375 for a finding
\* that is not a dict
ParseVulnerabilitiesError(scan_results) ==
    IF LookupListRaises(scan_results, "vulnerabilities") THEN "TypeError"
    ELSE IF \E i \in DOMAIN LookupList(scan_results, "vulnerabilities") :
                ~IsDict(LookupList(scan_results, "vulnerabilities")[i])
         THEN "AttributeError"
         ELSE ""

\* d.get(first) or d.get(second), the values being strings
GetEither(d, first, second) ==
    IF Has(d, first) /\ d[first] # <<>> THEN d[first]
    ELSE IF Has(d, second) THEN d[second]
    ELSE None

CountSeverity(vulns, key) ==
    Cardinality({i \in DOMAIN vulns : SeverityKey(NormalizeSeverity(SeverityOf(vulns[i]))) = key})

\* QScannerCloudRun._parse_vulnerabilities
ParseVulnerabilities(scan_results) ==
    LET vulns == LookupList(scan_results, "vulnerabilities")
    IN  [CRITICAL |-> CountSeverity(vulns, "CRITICAL"),
         HIGH |-> CountSeverity(vulns, "HIGH"),
         MEDIUM |-> CountSeverity(vulns, "MEDIUM"),
         LOW |-> CountSeverity(vulns, "LOW"),
         INFORMATIONAL |-> CountSeverity(vulns, "INFORMATIONAL"),
         total |-> Len(vulns),
         details |-> [i \in DOMAIN vulns |->
                        [qid |-> GetEither(vulns[i], "qid", "id"),
                         severity |-> NormalizeSeverity(SeverityOf(vulns[i]))]]]

StatusPass == <<"P", "A", "S", "S">>

StatusPassed == <<"P", "A", "S", "S", "E", "D">>

StatusFail == <<"F", "A", "I", "L">>

StatusFailed == <<"F", "A", "I", "L", "E", "D">>

\* IsPassed matching the keyword anywhere in the status
IsPassedSubstring(status) == Contains(status, StatusPass)

\* line 411: status in ['PASS', 'PASSED']
IsPassed(status) == status \in {StatusPass, StatusPassed}

\* line 413: status in ['FAIL', 'FAILED']
IsFailed(status) == status \in {StatusFail, StatusFailed}

\* check.get('status', ''), as a typed value
StatusOf(check) == IF Has(check, "status") THEN check.status ELSE JsonString(<<>>)

\* the exception _parse_compliance raises ("" when it returns): the TypeError
\* of line 404, or the AttributeError of line 408 for a check that is not a
\* dict or whose status is not a string
ParseComplianceError(scan_results) ==
    IF LookupListRaises(scan_results, "compliance") THEN "TypeError"
    ELSE IF \E i \in DOMAIN LookupList(scan_results, "compliance") :
                LET check == LookupList(scan_results, "compliance")[i]
                IN  ~IsDict(check) \/ StatusOf(check).type # "str"
         THEN "AttributeError"
         ELSE ""

\* lines 407-421: the loop over the checks, from the summary so far
RECURSIVE ComplianceLoop(_, _)
ComplianceLoop(compliance_checks, compliance) ==
    IF compliance_checks = <<>> THEN compliance
    ELSE LET check  == Head(compliance_checks)
             status == Upper(StatusOf(check).value)
         IN  ComplianceLoop(Tail(compliance_checks),
                 [passed |-> IF IsPassed(status)
                             THEN compliance.passed + 1 ELSE compliance.passed,
                  failed |-> IF ~IsPassed(status) /\ IsFailed(status)
                             THEN compliance.failed + 1 ELSE compliance.failed,
                  total  |-> compliance.total + 1,
                  checks |-> Append(compliance.checks,
                                    [id |-> GetEither(check, "id", "checkId"),
                                     status |-> status])])

\* QScannerCloudRun._parse_compliance, when it returns
ParseCompliance(scan_results) ==
    ComplianceLoop(LookupList(scan_results, "compliance"),
                   [passed |-> 0, failed |-> 0, total |-> 0, checks |-> <<>>])

\* the exception lines 77-82 raise on the output ("" when they build the
\* result): json.loads returned something that is not a dict and
\* scan_results.get raises AttributeError, or _parse_vulnerabilities raises on
\* the decoded object, or else _parse_compliance does
InterpretError(output) ==
    IF ~output.json THEN ""
    ELSE IF output.type # "object" THEN "AttributeError"
    ELSE IF ParseVulnerabilitiesError(output.value) # ""
         THEN ParseVulnerabilitiesError(output.value)
         ELSE ParseComplianceError(output.value)

InterpretRaises(output) == InterpretError(output) # ""

\* the scan id of a result: the scanner's scanId, else the time to the second
ScanId(scan_results, t) ==
    IF Has(scan_results, "scanId") THEN scan_results.scanId ELSE Strftime(t)

\* the dictionary scan_image returns for the output, at clock value t
ScanResult(output, t) ==
    LET scan_results == ParseQscannerOutput(output)
    IN  [scan_id |-> ScanId(scan_results, t),
         status |-> "COMPLETED",
         vulnerabilities |-> ParseVulnerabilities(scan_results),
         compliance |-> ParseCompliance(scan_results)]

\* a finding of severity "5"
FindingSeverity5 == [severity |-> <<"5">>]

\* a compliance check whose status is null
CheckNullStatus == [id |-> <<"c", "7">>, status |-> None]

\* what the log query can yield for an execution, the scanner having issued n
\* ids: text that is not JSON, the objects {}, {"vulnerabilities": [a finding
\* of severity "5"]} and {"scanId": a fresh id, "vulnerabilities": [a finding
\* of severity "High"]}, {"compliance": [a check whose status is null]},
\* {"results": null}, and the list []
LogOutputs(n) ==
    {[json |-> FALSE, text |-> "Scan failed: unauthorized"],
     [json |-> TRUE, type |-> "object", value |-> EmptyObject],
     [json |-> TRUE, type |-> "object", value |-> [vulnerabilities |-> <<FindingSeverity5>>]],
     [json |-> TRUE, type |-> "object",
      value |-> [scanId |-> <<"s", "c", "a", "n", "-">> \o D2(n + 1),
                 vulnerabilities |-> <<[severity |-> <<"H", "i", "g", "h">>]>>]],
     [json |-> TRUE, type |-> "object", value |-> [compliance |-> <<CheckNullStatus>>]],
     [json |-> TRUE, type |-> "object", value |-> [results |-> None]],
     [json |-> TRUE, type |-> "array", value |-> <<>>]}

\* should_alert counting the CRITICAL findings only, whatever the threshold
should_alert_critical(scan_result, threshold) ==
    IF threshold \in {"CRITICAL", "HIGH"} THEN scan_result.vulnerabilities.CRITICAL > 0
    ELSE FALSE

\* should_alert, under NOTIFY_SEVERITY_THRESHOLD = threshold
should_alert(scan_result, threshold) ==
    IF threshold = "CRITICAL" THEN scan_result.vulnerabilities.CRITICAL > 0
    ELSE IF threshold = "HIGH"
         THEN scan_result.vulnerabilities.CRITICAL > 0 \/ scan_result.vulnerabilities.HIGH > 0
         ELSE FALSE

Thresholds == {"CRITICAL", "HIGH", "NONE"}

(***************************************************************************)
(* storage_handler.py: the recency query.                                  *)
(***************************************************************************)
\* RecentDocs with the range filter '>' in place of '>='
RecentDocsStrict(docs, image, t) ==
    LET sanitized_name == SanitizeName(image)
        cutoff == IsoFormat(t - WindowSeconds)
    IN  {k \in DOMAIN docs :
            /\ docs[k].sanitized_image_name = sanitized_name
            /\ ~StrGeq(cutoff, docs[k].timestamp_str)}

\* the documents the Firestore query of is_recently_scanned matches
RecentDocs(docs, image, t) ==
    LET sanitized_name == SanitizeName(image)
        cutoff == IsoFormat(t - WindowSeconds)
    IN  {k \in DOMAIN docs :
            /\ docs[k].sanitized_image_name = sanitized_name
            /\ StrGeq(docs[k].timestamp_str, cutoff)}

\* is_recently_scanned failing closed: a failed query counts as a recent scan
is_recently_scanned_closed(docs, image, t, query) ==
    IF query = "ok" THEN RecentDocs(docs, image, t) # {} ELSE TRUE

\* StorageHandler.is_recently_scanned at clock value t; query is "failed"
\* when the query raises
is_recently_scanned(docs, image, t, query) ==
    IF query = "ok" THEN RecentDocs(docs, image, t) # {} ELSE FALSE

(***************************************************************************)
(* The state.                                                              *)
(***************************************************************************)
VARIABLES
    now,            \* the clock: seconds since ModelEpoch
    ticks,          \* how often the clock advanced on its own
    faults,         \* how many calls to the services have failed
    max_instances,  \* deployment: how many invocations the runtime runs at a time
    notify_threshold, \* deployment: NOTIFY_SEVERITY_THRESHOLD
    notification_topic, \* deployment: is NOTIFICATION_TOPIC set
    fault_budget,   \* environment: how many calls to the services fail in this run
    call,           \* a call of one of the pure functions, outside any handler
    issued,         \* how many scan ids the scanner has issued
    jobs,           \* Cloud Run: the jobs that exist, [name, owner]
    metadata,       \* Firestore scan_metadata: document id -> document
    blobs,          \* Cloud Storage: the names of the result blobs
    errors,         \* Cloud Storage: the blobs under errors/, blob name -> error record
    alerts,         \* the alerts published, <<handler, image index>>
    pc,             \* where each invocation of process_cloudrun_event is
    images,         \* its list of images
    idx,            \* the position of `image` in images (1-based)
    job_name,       \* scan_image: job_name
    start_time,     \* _wait_for_execution_completion: start_time
    wake,           \* when the wait an invocation is in ends (0: it is not waiting)
    attempts,       \* history: create_job and run_job calls for the current image
    retries,        \* history: status checks of the current poll loop that raised a GoogleAPIError
    scan_output,    \* scan_image: scan_output
    scan_result,    \* scan_image: the dictionary it is about to return
    scan_error,     \* scan_image: the exception it is about to propagate
    deletes,        \* history: delete_job calls of the current scan_image
    result_record,  \* process_cloudrun_event: result_record
    error,          \* process_cloudrun_event: img_error
    saves,          \* history: how many save_scan_result calls wrote a document
    done            \* history: the outcome of each image processed so far

vars == <<now, ticks, faults, max_instances, notify_threshold, notification_topic,
          fault_budget, call, issued, jobs, metadata, blobs, errors, alerts, pc, images, idx,
          job_name, start_time, wake, attempts, retries, scan_output, scan_result, scan_error,
          deletes, result_record, error, saves, done>>

\* what the deployment and the environment fix
config == <<max_instances, notify_threshold, notification_topic, fault_budget, call>>

services == <<jobs, metadata, blobs, errors, alerts, issued, saves>>

frame == <<job_name, start_time, wake, attempts, retries, scan_output, scan_result, scan_error,
           deletes, result_record, error>>

NoJobName == <<>>

NoAttempts == [create |-> 0, run |-> 0]

NoCall == [fn |-> "none", state |-> "none"]

NoOutput == [json |-> FALSE, text |-> "(none)"]

NoResult ==
    [scan_id |-> <<>>, status |-> "", vulnerabilities |-> ParseVulnerabilities(EmptyObject),
     compliance |-> ParseCompliance(EmptyObject)]

NoRecord == [timestamp |-> <<>>, image |-> <<>>, scan_id |-> <<>>, status |-> "",
             vulnerabilities |-> ParseVulnerabilities(EmptyObject),
             compliance |-> ParseCompliance(EmptyObject)]

NoDocs == [k \in {} |-> 0]

InitState ==
    /\ now = StartClock
    /\ ticks = 0
    /\ faults = 0
    /\ issued = 0
    /\ jobs = {}
    /\ metadata = NoDocs
    /\ blobs = {}
    /\ errors = NoDocs
    /\ alerts = {}
    /\ pc = [h \in Handlers |-> "idle"]
    /\ images = [h \in Handlers |-> <<>>]
    /\ idx = [h \in Handlers |-> 0]
    /\ job_name = [h \in Handlers |-> NoJobName]
    /\ start_time = [h \in Handlers |-> 0]
    /\ wake = [h \in Handlers |-> 0]
    /\ attempts = [h \in Handlers |-> NoAttempts]
    /\ retries = [h \in Handlers |-> 0]
    /\ scan_output = [h \in Handlers |-> NoOutput]
    /\ scan_result = [h \in Handlers |-> NoResult]
    /\ scan_error = [h \in Handlers |-> ""]
    /\ deletes = [h \in Handlers |-> 0]
    /\ result_record = [h \in Handlers |-> NoRecord]
    /\ error = [h \in Handlers |-> ""]
    /\ saves = 0
    /\ done = [h \in Handlers |-> <<>>]

\* NOTIFY_SEVERITY_THRESHOLD is not set: os.environ.get yields 'HIGH'
DefaultThreshold == "HIGH"

\* one instance: the runtime hands over an event when the previous one is
\* done; NOTIFICATION_TOPIC is set
Init ==
    /\ InitState
    /\ max_instances = 1
    /\ notify_threshold = DefaultThreshold
    /\ notification_topic = TRUE
    /\ fault_budget = MaxFaults
    /\ call = NoCall

\* one instance, NOTIFICATION_TOPIC set or not
InitTopics ==
    /\ InitState
    /\ max_instances = 1
    /\ notify_threshold = DefaultThreshold
    /\ notification_topic \in BOOLEAN
    /\ fault_budget = MaxFaults
    /\ call = NoCall

\* one instance, and every call to the services succeeds
InitReliable ==
    /\ InitState
    /\ max_instances = 1
    /\ notify_threshold = DefaultThreshold
    /\ notification_topic = TRUE
    /\ fault_budget = 0
    /\ call = NoCall

\* two instances: two events are processed at the same time; every call to
\* the services succeeds
InitConcurrent ==
    /\ InitState
    /\ max_instances = 2
    /\ notify_threshold = DefaultThreshold
    /\ notification_topic = TRUE
    /\ fault_budget = 0
    /\ call = NoCall

\* one instance, NOTIFY_SEVERITY_THRESHOLD set to any of the values, the
\* alert topic configured
InitThresholds ==
    /\ InitState
    /\ max_instances = 1
    /\ notify_threshold \in Thresholds
    /\ notification_topic = TRUE
    /\ fault_budget = MaxFaults
    /\ call = NoCall

Running == {h \in Handlers : pc[h] \notin {"idle", "returned", "raised"}}

\* a cache window passes while no image is being processed (while one is, the
\* clock advances with the waits of the scan)
Tick(d) ==
    /\ ticks < MaxTicks
    /\ \A h \in Handlers : pc[h] \in {"idle", "loop", "returned", "raised"}
    /\ now' = now + d
    /\ ticks' = ticks + 1
    /\ UNCHANGED <<faults, config, services, pc, images, idx, frame, done>>

(***************************************************************************)
(* main.py: process_cloudrun_event up to the loop over the images.         *)
(***************************************************************************)
\* EventOutcome without the `raise` of line 141
EventOutcomeSwallows(event, init) ==
    IF event.data = "absent" THEN "returned"
    ELSE IF event.data = "malformed" THEN "returned"
    ELSE IF ~IsServiceDeployment(event.methodName) THEN "returned"
    ELSE IF extract_images_from_service(event.containers) = <<>> THEN "returned"
    ELSE IF init # "ok" THEN "returned"
    ELSE "loop"

\* where the part of process_cloudrun_event before the loop ends: "returned"
\* (a no-op), "raised" (re-raised to the runtime) or "loop"; init is "failed"
\* when constructing the scanner or the storage handler raises
EventOutcome(event, init) ==
    IF event.data = "absent" THEN "returned"
    ELSE IF event.data = "malformed" THEN "raised"
    ELSE IF ~IsServiceDeployment(event.methodName) THEN "returned"
    ELSE IF extract_images_from_service(event.containers) = <<>> THEN "returned"
    ELSE IF init # "ok" THEN "raised"
    ELSE "loop"

\* the images the events accepted so far carry; the events of one run carry
\* two images in all: one event with two images, or two events with one each
RECURSIVE TotalImages(_)
TotalImages(hs) ==
    IF hs = {} THEN 0
    ELSE LET h == CHOOSE x \in hs : TRUE
         IN  Len(images[h]) + TotalImages(hs \ {h})

\* a call with a result res other than "ok" fails; the run has a budget of
\* failures
MayFail(res) == res # "ok" => faults < fault_budget

Count(res) == IF res # "ok" THEN faults + 1 ELSE faults

HandleEvent(h, event, init) ==
    /\ pc[h] = "idle"
    /\ \A g \in Earlier(h) : pc[g] # "idle"
    /\ Cardinality(Running) < max_instances
    /\ MayFail(init)
    /\ Len(extract_images_from_service(event.containers)) + TotalImages(Handlers) \in 0..2
    /\ LET outcome == EventOutcome(event, init)
       IN  /\ faults' = IF EventOutcome(event, "ok") = "loop" THEN Count(init) ELSE faults
           /\ pc' = [pc EXCEPT ![h] = outcome]
           /\ IF outcome = "loop"
              THEN /\ images' = [images EXCEPT ![h] =
                                    extract_images_from_service(event.containers)]
                   /\ idx' = [idx EXCEPT ![h] = 1]
              ELSE UNCHANGED <<images, idx>>
    /\ UNCHANGED <<config, now, ticks, services, frame, done>>

\* the loop goes on to the next image, or the handler returns after the last
\* one; outcome is what became of the image just processed
NextImage(h, outcome) ==
    /\ pc' = [pc EXCEPT ![h] = IF idx[h] = Len(images[h]) THEN "returned" ELSE "loop"]
    /\ idx' = [idx EXCEPT ![h] = idx[h] + 1]
    /\ done' = [done EXCEPT ![h] = Append(done[h], [outcome |-> outcome, error |-> error[h]])]
    /\ job_name' = [job_name EXCEPT ![h] = NoJobName]
    /\ start_time' = [start_time EXCEPT ![h] = 0]
    /\ attempts' = [attempts EXCEPT ![h] = NoAttempts]
    /\ retries' = [retries EXCEPT ![h] = 0]
    /\ scan_output' = [scan_output EXCEPT ![h] = NoOutput]
    /\ scan_result' = [scan_result EXCEPT ![h] = NoResult]
    /\ scan_error' = [scan_error EXCEPT ![h] = ""]
    /\ deletes' = [deletes EXCEPT ![h] = 0]
    /\ result_record' = [result_record EXCEPT ![h] = NoRecord]
    /\ error' = [error EXCEPT ![h] = ""]
    /\ UNCHANGED wake

(***************************************************************************)
(* main.py: the body of the loop, and scan_image with its helpers.         *)
(***************************************************************************)
image(h) == images[h][idx[h]]

\* lines 80-85: parse and the recency check
BeginImage(h, query) ==
    /\ pc[h] = "loop"
    /\ MayFail(query)
    /\ faults' = IF ParseRaises(image(h)) THEN faults ELSE Count(query)
    /\ IF ParseRaises(image(h))
       THEN /\ pc' = [pc EXCEPT ![h] = "img_error"]
            /\ error' = [error EXCEPT ![h] = "ValueError"]
            /\ UNCHANGED <<images, idx, done, job_name, start_time, wake, attempts, retries,
                           scan_output, scan_result, scan_error, deletes, result_record>>
       ELSE IF is_recently_scanned(metadata, ParseImage(image(h)).full_name, now, query)
            THEN /\ NextImage(h, "skipped")
                 /\ UNCHANGED images
            ELSE /\ pc' = [pc EXCEPT ![h] = "scan"]
                 /\ UNCHANGED <<images, idx, done, frame>>
    /\ UNCHANGED <<config, now, ticks, services>>

\* lines 87-103 and scan_image up to its try block, lines 60-68: the job name
\* is generated from the clock
ScanImage(h) ==
    /\ pc[h] = "scan"
    /\ LET image_info == ParseImage(image(h))
       IN  job_name' = [job_name EXCEPT ![h] =
               GenerateJobName(image_info.registry, image_info.repository,
                               image_info.tag, now)]
    /\ pc' = [pc EXCEPT ![h] = "create"]
    /\ UNCHANGED <<config, now, ticks, faults, services, images, idx, done, start_time, wake,
                   attempts, retries, scan_output, scan_result, scan_error, deletes,
                   result_record, error>>

\* ScanRaises with a retry of run_job after its failure
ScanRaisesRetry(h, e) ==
    IF e = "RunFailed"
    THEN UNCHANGED <<pc, scan_error>>
    ELSE /\ pc' = [pc EXCEPT ![h] = "cleanup"]
         /\ scan_error' = [scan_error EXCEPT ![h] = e]

\* scan_image fails with the exception e: on to the finally block
ScanRaises(h, e) ==
    /\ pc' = [pc EXCEPT ![h] = "cleanup"]
    /\ scan_error' = [scan_error EXCEPT ![h] = e]

\* _run_qscanner_job, lines 160-167 and 171-173: create_job is called; a name
\* that is taken is refused; the job exists from the call on, and the
\* invocation goes on to wait for the creation, which takes a second
CreateJob(h, res) ==
    /\ pc[h] = "create"
    /\ MayFail(res)
    /\ faults' = Count(res)
    /\ attempts' = [attempts EXCEPT ![h].create = @ + 1]
    /\ IF res = "ok" /\ \A j \in jobs : j.name # job_name[h]
       THEN /\ jobs' = jobs \cup {[name |-> job_name[h], owner |-> h]}
            /\ pc' = [pc EXCEPT ![h] = "creating"]
            /\ wake' = [wake EXCEPT ![h] = now + 1]
            /\ UNCHANGED scan_error
       ELSE /\ ScanRaises(h, "CreateFailed")
            /\ UNCHANGED <<jobs, wake>>
    /\ UNCHANGED <<config, now, ticks, metadata, blobs, errors, alerts, issued, saves, images, idx,
                   done, job_name, start_time, retries, scan_output, scan_result, deletes,
                   result_record, error>>

\* lines 168-173: operation.result() ends the wait for the creation; the
\* clock is then at the end of the wait, or beyond it when another
\* invocation's wait has ended later. It returns, or it raises the
\* GoogleAPIError of a creation that failed (res = "failed"): the job of
\* line 163 exists, and scan_image fails with it in place
JobCreated(h, res) ==
    /\ pc[h] = "creating"
    /\ MayFail(res)
    /\ faults' = Count(res)
    /\ now' = IF wake[h] > now THEN wake[h] ELSE now
    /\ wake' = [wake EXCEPT ![h] = 0]
    /\ IF res = "ok"
       THEN /\ pc' = [pc EXCEPT ![h] = "run"]
            /\ UNCHANGED scan_error
       ELSE ScanRaises(h, "CreateFailed")
    /\ UNCHANGED <<config, ticks, jobs, metadata, blobs, errors, alerts, issued, saves, images,
                   idx, done, job_name, start_time, attempts, retries, scan_output, scan_result,
                   deletes, result_record, error>>

\* _run_qscanner_job, lines 175-178 and 182-184: run_job is called, and the
\* invocation goes on to wait for the start of the execution
RunJob(h, res) ==
    /\ pc[h] = "run"
    /\ MayFail(res)
    /\ faults' = Count(res)
    /\ attempts' = [attempts EXCEPT ![h].run = @ + 1]
    /\ IF res = "ok"
       THEN /\ pc' = [pc EXCEPT ![h] = "starting"]
            /\ UNCHANGED scan_error
       ELSE ScanRaises(h, "RunFailed")
    /\ UNCHANGED <<config, now, ticks, services, images, idx, done, job_name, start_time, wake,
                   retries, scan_output, scan_result, deletes, result_record, error>>

\* lines 179-187 and 202: execution_operation.result() ends the wait; it
\* returns, and _wait_for_execution_completion reads the clock for
\* start_time, or it raises a GoogleAPIError (res = "failed")
JobStarted(h, res) ==
    /\ pc[h] = "starting"
    /\ MayFail(res)
    /\ faults' = Count(res)
    /\ IF res = "ok"
       THEN /\ pc' = [pc EXCEPT ![h] = "poll"]
            /\ start_time' = [start_time EXCEPT ![h] = now]
            /\ UNCHANGED scan_error
       ELSE /\ ScanRaises(h, "RunFailed")
            /\ UNCHANGED start_time
    /\ UNCHANGED <<config, now, ticks, services, images, idx, done, job_name, wake, attempts,
                   retries, scan_output, scan_result, deletes, result_record, error>>

\* what get_execution can show: it raises a GoogleAPIError ("api_error") or
\* another exception ("error"), or returns an execution that is still running
\* or has completed with a succeeded task, with failed tasks only, or with neither
PollStatuses == {"api_error", "error", "running", "succeeded", "failed", "neither"}

\* the time test waiting one interval longer
TimeIsUpLate(elapsed) == elapsed > ScanTimeout + poll_interval

\* the time test with twice the time
TimeIsUpTwice(elapsed) == elapsed > 2 * ScanTimeout

\* line 207: is the time of the scan up
TimeIsUp(elapsed) == elapsed > ScanTimeout

\* PollStep without the except clause of line 231
PollStepNoRetry(status) ==
    IF status \in {"succeeded", "failed"} THEN "return"
    ELSE IF status = "neither" THEN "UnexpectedState"
    ELSE IF status \in {"error", "api_error"} THEN "StatusError"
    ELSE "sleep"

\* lines 211-233: what the loop does with the answer of get_execution
PollStep(status) ==
    IF status \in {"succeeded", "failed"} THEN "return"
    ELSE IF status = "neither" THEN "UnexpectedState"
    ELSE IF status = "error" THEN "StatusError"
    ELSE "sleep"

\* the top of an iteration, lines 205-211: the clock is read; once the time
\* is up TimeoutError is raised, and otherwise get_execution is called and the
\* invocation waits for its answer
Poll(h) ==
    /\ pc[h] = "poll"
    /\ IF TimeIsUp(now - start_time[h])
       THEN ScanRaises(h, "Timeout")
       ELSE /\ pc' = [pc EXCEPT ![h] = "status"]
            /\ UNCHANGED scan_error
    /\ UNCHANGED <<config, now, ticks, faults, services, images, idx, done, job_name, start_time,
                   wake, attempts, retries, scan_output, scan_result, deletes, result_record,
                   error>>

\* the rest of the iteration up to its sleep, lines 211-233: the answer of
\* get_execution arrives, at the clock of that moment, and the sleep starts
\* then; a status check that raises anything but a GoogleAPIError counts as a
\* failed call
GetExecution(h, status) ==
    /\ pc[h] = "status"
    /\ status = "error" => faults < fault_budget
    /\ faults' = IF status = "error" THEN faults + 1 ELSE faults
    /\ LET step == PollStep(status)
       IN  IF step = "sleep"
           THEN /\ pc' = [pc EXCEPT ![h] = "sleep"]
                /\ wake' = [wake EXCEPT ![h] = now + poll_interval]
                /\ retries' = [retries EXCEPT ![h] =
                                  IF status = "api_error" THEN retries[h] + 1 ELSE retries[h]]
                /\ UNCHANGED scan_error
           ELSE IF step = "return"
           THEN /\ pc' = [pc EXCEPT ![h] = "logs"]
                /\ UNCHANGED <<wake, scan_error, retries>>
           ELSE /\ ScanRaises(h, step)
                /\ UNCHANGED <<wake, retries>>
    /\ UNCHANGED <<config, now, ticks, services, images, idx, done, job_name, start_time, attempts,
                   scan_output, scan_result, deletes, result_record, error>>

\* lines 229 and 233: time.sleep(poll_interval) returns, and the loop goes
\* round; the clock is then at the end of the sleep, or beyond it
Sleep(h) ==
    /\ pc[h] = "sleep"
    /\ now' = IF wake[h] > now THEN wake[h] ELSE now
    /\ wake' = [wake EXCEPT ![h] = 0]
    /\ pc' = [pc EXCEPT ![h] = "poll"]
    /\ UNCHANGED <<config, ticks, faults, services, images, idx, done, job_name, start_time,
                   attempts, retries, scan_output, scan_result, scan_error, deletes,
                   result_record, error>>

\* _get_execution_logs: the joined log entries, or '' when anything raises
GetExecutionLogs(res, out) == IF res = "ok" THEN out ELSE [json |-> FALSE, text |-> ""]

\* lines 189-192 and 75-93: the logs are retrieved and interpreted
GetLogs(h, res, out) ==
    /\ pc[h] = "logs"
    /\ MayFail(res)
    /\ faults' = Count(res)
    /\ LET logs == GetExecutionLogs(res, out)
       IN  /\ scan_output' = [scan_output EXCEPT ![h] = logs]
           /\ issued' = IF logs.json /\ logs.type = "object" /\ Has(logs.value, "scanId")
                         THEN issued + 1 ELSE issued
           /\ IF InterpretRaises(logs)
              THEN /\ ScanRaises(h, InterpretError(logs))
                   /\ UNCHANGED scan_result
              ELSE /\ scan_result' = [scan_result EXCEPT ![h] = ScanResult(logs, now)]
                   /\ pc' = [pc EXCEPT ![h] = "cleanup"]
                   /\ UNCHANGED scan_error
    /\ UNCHANGED <<config, now, ticks, jobs, metadata, blobs, errors, alerts, saves, images, idx,
                   done, job_name, start_time, wake, attempts, retries, deletes, result_record,
                   error>>

\* FinallyOutcome without the try/except around _delete_job in the finally block
FinallyOutcomeEscalates(propagating, res) ==
    IF res = "error" THEN "DeleteFailed" ELSE propagating

\* what the caller of scan_image sees once the finally block has run: the
\* exception that was propagating ("" when scan_image returns); _delete_job
\* swallows a GoogleAPIError, the finally block any other exception
FinallyOutcome(propagating, res) == propagating

\* lines 98-103 and _delete_job, lines 274-282: delete_job is called; the job
\* is gone from the call on, and the invocation goes on to wait for the
\* deletion; a deletion that fails, at the call or while it is awaited (lines
\* 277-278), leaves the job in place, and the except clauses swallow it
DeleteJob(h, res) ==
    /\ pc[h] = "cleanup"
    /\ MayFail(res)
    /\ faults' = Count(res)
    /\ deletes' = [deletes EXCEPT ![h] = deletes[h] + 1]
    /\ jobs' = IF res = "ok" THEN {j \in jobs : j.name # job_name[h]} ELSE jobs
    /\ scan_error' = [scan_error EXCEPT ![h] = FinallyOutcome(scan_error[h], res)]
    /\ pc' = [pc EXCEPT ![h] = "deleting"]
    /\ UNCHANGED <<config, now, ticks, metadata, blobs, errors, alerts, issued, saves, images, idx,
                   done, job_name, start_time, wake, attempts, retries, scan_output, scan_result,
                   result_record, error>>

\* line 278 on, the wait for the deletion is over, and scan_image ends: main.py lines
\* 105-117 build the record from its result, stamped with the clock, or the
\* except of line 127 catches what it propagates
JobDeleted(h) ==
    /\ pc[h] = "deleting"
    /\ IF scan_error[h] = ""
       THEN /\ pc' = [pc EXCEPT ![h] = "save"]
            /\ result_record' = [result_record EXCEPT ![h] =
                   [timestamp |-> IsoFormat(now), image |-> image(h),
                    scan_id |-> scan_result[h].scan_id, status |-> scan_result[h].status,
                    vulnerabilities |-> scan_result[h].vulnerabilities,
                    compliance |-> scan_result[h].compliance]]
            /\ UNCHANGED error
       ELSE /\ pc' = [pc EXCEPT ![h] = "img_error"]
            /\ error' = [error EXCEPT ![h] = scan_error[h]]
            /\ UNCHANGED result_record
    /\ job_name' = [job_name EXCEPT ![h] = NoJobName]
    /\ start_time' = [start_time EXCEPT ![h] = 0]
    /\ retries' = [retries EXCEPT ![h] = 0]
    /\ scan_result' = [scan_result EXCEPT ![h] = NoResult]
    /\ UNCHANGED <<config, now, ticks, faults, services, images, idx, done, wake, attempts,
                   scan_output, scan_error, deletes>>

(***************************************************************************)
(* storage_handler.py: save_scan_result, save_error; main.py: the alert.   *)
(***************************************************************************)
\* the blob name of a result
BlobName(result) == SanitizeName(result.image) \o <<"/">> \o result.scan_id
                        \o <<".", "j", "s", "o", "n">>

\* the Firestore document of a result
MetadataDoc(result) ==
    [image |-> result.image,
     scan_id |-> result.scan_id,
     timestamp_str |-> result.timestamp,
     status |-> result.status,
     vuln_critical |-> result.vulnerabilities.CRITICAL,
     vuln_high |-> result.vulnerabilities.HIGH,
     vuln_total |-> result.vulnerabilities.total,
     compliance_passed |-> result.compliance.passed,
     compliance_failed |-> result.compliance.failed,
     sanitized_image_name |-> SanitizeName(result.image)]

\* doc_ref.set(metadata): the document with this id is created or replaced
SetDoc(docs, key, doc) ==
    [k \in DOMAIN docs \cup {key} |-> IF k = key THEN doc ELSE docs[k]]

\* save_scan_result, lines 60-81: the result blob is uploaded; res is "ok" or
\* "blob_failed" (the upload raises, and lines 107-109 raise it again)
SaveScanResult(h, res) ==
    /\ pc[h] = "save"
    /\ MayFail(res)
    /\ faults' = Count(res)
    /\ blobs' = IF res = "ok" THEN blobs \cup {BlobName(result_record[h])} ELSE blobs
    /\ IF res = "ok"
       THEN /\ pc' = [pc EXCEPT ![h] = "save_doc"]
            /\ UNCHANGED error
       ELSE /\ pc' = [pc EXCEPT ![h] = "img_error"]
            /\ error' = [error EXCEPT ![h] = "SaveFailed"]
    /\ UNCHANGED <<config, now, ticks, jobs, metadata, errors, alerts, issued, saves, images, idx,
                   done, job_name, start_time, wake, attempts, retries, scan_output, scan_result,
                   scan_error, deletes, result_record>>

\* save_scan_result raising also when its write succeeded
SaveRaisesAlways(res) == TRUE

\* does save_scan_result raise once the blob is uploaded, lines 104-109: when
\* the Firestore write raises
SaveRaises(res) == res # "ok"

\* save_scan_result, lines 83-105: the metadata document is written, then
\* main.py lines 121-125; res is "ok" or "doc_failed" (the Firestore write
\* raises)
SaveMetadata(h, res) ==
    /\ pc[h] = "save_doc"
    /\ MayFail(res)
    /\ faults' = Count(res)
    /\ metadata' = IF res = "ok"
                   THEN SetDoc(metadata, result_record[h].scan_id, MetadataDoc(result_record[h]))
                   ELSE metadata
    /\ saves' = IF res = "ok" THEN saves + 1 ELSE saves
    /\ IF ~SaveRaises(res)
       THEN IF should_alert(result_record[h], notify_threshold)
            THEN /\ pc' = [pc EXCEPT ![h] = "alert"]
                 /\ UNCHANGED <<idx, done, frame>>
            ELSE NextImage(h, "scan_record")
       ELSE /\ pc' = [pc EXCEPT ![h] = "img_error"]
            /\ error' = [error EXCEPT ![h] = "SaveFailed"]
            /\ UNCHANGED <<idx, done, job_name, start_time, wake, attempts, retries, scan_output,
                           scan_result, scan_error, deletes, result_record>>
    /\ UNCHANGED <<config, now, ticks, jobs, blobs, errors, alerts, issued, images>>

\* send_alert without its except clause
SendAlertPropagates(res) == res # "ok"

\* does a failure inside send_alert reach its caller: lines 228-229 catch and
\* log it
SendAlertRaises(res) == FALSE

\* line 125 and send_alert: the alert is logged (lines 205-209), and
\* published when NOTIFICATION_TOPIC is set (lines 212-227); with no topic
\* nothing is published and nothing fails; res = "failed" when the
\* publication raises; an exception that left send_alert would be caught by
\* the except of line 127
SendAlert(h, res) ==
    /\ pc[h] = "alert"
    /\ MayFail(res)
    /\ res # "ok" => notification_topic
    /\ faults' = Count(res)
    /\ alerts' = IF notification_topic /\ res = "ok" THEN alerts \cup {<<h, idx[h]>>} ELSE alerts
    /\ IF res # "ok" /\ SendAlertRaises(res)
       THEN /\ pc' = [pc EXCEPT ![h] = "img_error"]
            /\ error' = [error EXCEPT ![h] = "AlertFailed"]
            /\ UNCHANGED <<idx, done, job_name, start_time, wake, attempts, retries, scan_output,
                           scan_result, scan_error, deletes, result_record>>
       ELSE NextImage(h, IF ~notification_topic THEN "scan_record_alert_logged"
                         ELSE IF res = "ok" THEN "scan_record_alert"
                         ELSE "scan_record_alert_failed")
    /\ UNCHANGED <<config, now, ticks, jobs, metadata, blobs, errors, issued, saves, images>>

\* save_error without its except clause
SaveErrorPropagates(res) == res # "ok"

\* does a failed write of save_error reach its caller: it is caught and logged
SaveErrorRaises(res) == FALSE

\* the dictionary main.py lines 129-135 hand to save_error at clock value t:
\* its timestamp, image and error (service_name and project_id are the
\* event's, which the loop does not change)
ErrorInfo(img, e, t) == [timestamp |-> IsoFormat(t), image |-> img, error |-> e]

\* the blob name of an error record, storage_handler.py line 123
ErrorBlobName(error_info) ==
    <<"e", "r", "r", "o", "r", "s", "/">> \o SanitizeName(error_info.image) \o <<"/">>
        \o error_info.timestamp \o <<".", "j", "s", "o", "n">>

\* lines 127-135 and save_error: the error record is uploaded under its blob
\* name, in place of the blob of that name if there is one
SaveError(h, res) ==
    /\ pc[h] = "img_error"
    /\ MayFail(res)
    /\ faults' = Count(res)
    /\ LET error_info == ErrorInfo(image(h), error[h], now)
       IN  errors' = IF res = "ok"
                     THEN SetDoc(errors, ErrorBlobName(error_info), error_info)
                     ELSE errors
    /\ IF res # "ok" /\ SaveErrorRaises(res)
       THEN /\ pc' = [pc EXCEPT ![h] = "raised"]
            /\ UNCHANGED <<idx, done, frame>>
       ELSE NextImage(h, IF res = "ok" THEN "error_record" ELSE "error_record_failed")
    /\ UNCHANGED <<config, now, ticks, jobs, metadata, blobs, alerts, issued, saves, images>>

\* the runtime hands an event to the instance h, which is idle, while fewer
\* than max_instances are running
Deliver(h) ==
    /\ pc[h] = "idle"
    /\ Cardinality(Running) < max_instances
    /\ \E event \in Events, init \in {"ok", "failed"} : HandleEvent(h, event, init)

\* the steps of the invocations
HandlerSteps ==
    \/ \E h \in Handlers : Deliver(h)
    \/ \E h \in Handlers, query \in {"ok", "failed"} : BeginImage(h, query)
    \/ \E h \in Handlers : ScanImage(h)
    \/ \E h \in Handlers, res \in {"ok", "failed"} : CreateJob(h, res)
    \/ \E h \in Handlers, res \in {"ok", "failed"} : JobCreated(h, res)
    \/ \E h \in Handlers, res \in {"ok", "failed"} : RunJob(h, res)
    \/ \E h \in Handlers, res \in {"ok", "failed"} : JobStarted(h, res)
    \/ \E h \in Handlers : Poll(h)
    \/ \E h \in Handlers, status \in PollStatuses : GetExecution(h, status)
    \/ \E h \in Handlers : Sleep(h)
    \/ \E h \in Handlers, res \in {"ok", "failed"} :
          pc[h] = "logs" /\ \E out \in LogOutputs(issued) : GetLogs(h, res, out)
    \/ \E h \in Handlers, res \in {"ok", "api_error", "error"} : DeleteJob(h, res)
    \/ \E h \in Handlers : JobDeleted(h)
    \/ \E h \in Handlers, res \in {"ok", "blob_failed"} : SaveScanResult(h, res)
    \/ \E h \in Handlers, res \in {"ok", "doc_failed"} : SaveMetadata(h, res)
    \/ \E h \in Handlers, res \in {"ok", "failed"} : SendAlert(h, res)
    \/ \E h \in Handlers, res \in {"ok", "failed"} : SaveError(h, res)

Next ==
    \/ Tick(WindowSeconds)
    \/ HandlerSteps

Spec == Init /\ [][Next]_vars

\* cache windows pass between the images, every call to the services succeeding
SpecWindows == InitReliable /\ [][Next]_vars

\* two function instances at once, within one cache window, every call to
\* the services succeeding
SpecConcurrent == InitConcurrent /\ [][HandlerSteps]_vars

\* the events of one cache window under the default threshold
SpecEvents == Init /\ [][HandlerSteps]_vars

\* the events of one cache window, the alert topic configured or not
SpecAlerts == InitTopics /\ [][HandlerSteps]_vars

\* the events of one cache window under each threshold
SpecThresholds == InitThresholds /\ [][HandlerSteps]_vars

\* the events of one cache window; an invocation that is in the poll loop goes
\* on running: the runtime does not suspend the instance while it handles an
\* event
SpecFair ==
    /\ Init
    /\ [][HandlerSteps]_vars
    /\ \A h \in Handlers : WF_vars(Poll(h))
    /\ \A h \in Handlers : WF_vars(\E status \in PollStatuses : GetExecution(h, status))
    /\ \A h \in Handlers : WF_vars(Sleep(h))

(***************************************************************************)
(* The pure functions, called on their own: ImageParser.parse,             *)
(* _generate_job_name, _normalize_severity, _parse_vulnerabilities and     *)
(* _parse_compliance.                                                      *)
(***************************************************************************)
\* the strings of one to n tokens
RECURSIVE TokenStrings(_, _)
TokenStrings(tokens, n) ==
    IF n = 0 THEN {<<>>}
    ELSE LET shorter == TokenStrings(tokens, n - 1)
         IN  shorter \cup {x \o tok : x \in shorter, tok \in tokens}

\* s repeated n times
RECURSIVE Repeat(_, _)
Repeat(s, n) == IF n = 0 THEN <<>> ELSE s \o Repeat(s, n - 1)

\* how many tokens a free-form image string has
MaxImageTokens == 3

ImageTokens == {<<"a">>, <<":">>, <<"/">>, <<".">>, Sha256Marker, <<"@">>}

ImageHosts ==
    {<<>>, <<"g", "c", "r", ".", "i", "o", "/", "p", "/">>, <<"l", "o", "c", "a", "l", "h", "o", "s", "t", ":", "5", "0", "0", "0", "/">>, <<"u", "s", "e", "r", "/">>, <<"h", ".", "i", "o", "/", "p", "/", "q", "/">>}

ImageNames == {<<>>, <<"a", "p", "p">>, <<"a", "/", "b">>}

ImageTags == {<<>>, <<":", "v", "1">>, <<":">>}

ImageDigests ==
    {<<>>, Sha256Marker, Sha256Marker \o <<"a", "b", "1", "2">>,
     Sha256Marker \o <<"a", "b", "1", "2">> \o Sha256Marker \o <<"c", "d">>}

\* the image strings parse is called with: host, name, tag and digest parts
\* put together, with or without a trailing slash, and the free-form strings
ParseInputs ==
    {host \o name \o tag \o digest \o trailer :
        host \in ImageHosts, name \in ImageNames, tag \in ImageTags,
        digest \in ImageDigests, trailer \in {<<>>, <<"/">>}}
    \cup TokenStrings(ImageTokens, MaxImageTokens)

\* how often a piece is repeated in a repository name
MaxRepeat == 12

RepositoryPieces == {<<"a">>, <<"A">>, <<"a", "/", "b", ".">>, <<"_">>, <<"É">>, <<"ß">>}

\* the repositories, tags and times _generate_job_name is called with
JobNameInputs ==
    [registry : {DockerIo},
     repository : {Repeat(piece, n) : piece \in RepositoryPieces, n \in 0..MaxRepeat},
     tag : {Latest, <<"V", "1", ".", "0", "_", "r", "c">>, <<>>},
     t : {StartClock, StartClock + 86399}]

\* how many tokens a severity string has
MaxSeverityTokens == 2

SeverityTokens ==
    {<<"c", "r", "i", "t">>, <<"H", "I", "G", "H">>, <<"M", "e", "d">>, <<"l", "o", "w">>, <<"I", "n", "f", "o">>,
     <<"x">>, <<"5">>, <<"1">>, <<" ">>, <<"h", "U+0131", "g", "h">>, <<"ß">>}

\* the severities _normalize_severity is called with: numbers, strings, None
SeverityInputs ==
    [type : {"int"}, value : 0..6]
    \cup [type : {"str"}, value : TokenStrings(SeverityTokens, MaxSeverityTokens)
                                   \cup {<<"0">>, <<"2">>, <<"3">>, <<"4">>, <<"6">>}
                                   \cup {SevCritical, SevHigh, SevMedium, SevLow,
                                         SevInformational, SevUnknown}]
    \cup {[type |-> "none", value |-> 0]}

\* str(severity)
PyStr(severity) ==
    IF severity.type = "int" THEN <<Digits[severity.value + 1]>>
    ELSE IF severity.type = "none" THEN <<"N", "o", "n", "e">>
    ELSE severity.value

\* how many findings a scanner output has
MaxFindings == 3

\* findings with a 'qid' or an 'id', with and without a severity, one with
\* the severity "high" written with a dotless i; and an entry that is null
\* instead of a finding
Findings ==
    {[qid |-> <<"q", "1">>, severity |-> <<"5">>],
     [id |-> <<"i", "2">>, severity |-> <<"H", "i", "g", "h">>],
     [id |-> <<"i", "3">>],
     [qid |-> <<"q", "4">>, severity |-> <<"l", "o", "w">>],
     [qid |-> <<>>, id |-> <<"i", "5">>, severity |-> <<"1">>],
     [qid |-> <<"q", "6">>, severity |-> <<"b", "o", "g", "u", "s">>],
     [qid |-> <<"q", "7">>, severity |-> <<"h", "U+0131", "g", "h">>],
     None}

\* the outputs _parse_vulnerabilities is called with: the findings at the top
\* level, under 'results', or at both places; and 'results' holding null, an
\* empty object or a string
VulnerabilityInputs ==
    {[vulnerabilities |-> l] : l \in SeqsUpTo(Findings, MaxFindings)}
    \cup {[results |-> [vulnerabilities |-> l]] : l \in SeqsUpTo(Findings, MaxFindings)}
    \cup {[vulnerabilities |-> l, results |-> [vulnerabilities |-> <<[id |-> <<"i", "0">>]>>]] :
              l \in SeqsUpTo(Findings, 1)}
    \cup {[vulnerabilities |-> l, results |-> None] : l \in SeqsUpTo(Findings, 1)}
    \cup {EmptyObject, [results |-> None], [results |-> EmptyObject]}
    \cup {[results |-> JsonString(s)] : s \in {<<>>, <<"x">> \o KeyChars("vulnerabilities")}}

\* how many compliance checks a scanner output has
MaxChecks == 3

\* checks with an 'id' or a 'checkId'; the status is a string (one of them
\* "pass" written with a sharp s), absent or null; and an entry that is null
\* instead of a check
Checks ==
    {[id |-> <<"c", "1">>, status |-> JsonString(<<"P", "A", "S", "S">>)],
     [checkId |-> <<"c", "2">>, status |-> JsonString(<<"p", "a", "s", "s", "e", "d">>)],
     [id |-> <<"c", "3">>, status |-> JsonString(<<"F", "a", "i", "l">>)],
     [id |-> <<"c", "4">>, status |-> JsonString(<<"F", "A", "I", "L", "E", "D">>)],
     [id |-> <<"c", "5">>, status |-> JsonString(<<"P", "a", "s", "s", "i", "n", "g">>)],
     [id |-> <<"c", "6">>],
     [id |-> <<"c", "8">>, status |-> JsonString(<<"p", "a", "ß">>)],
     CheckNullStatus,
     None}

\* the outputs _parse_compliance is called with: the checks at the top level
\* or under 'results'; and 'results' holding null, an empty object or a string
ComplianceInputs ==
    {[compliance |-> l] : l \in SeqsUpTo(Checks, MaxChecks)}
    \cup {[results |-> [compliance |-> l]] : l \in SeqsUpTo(Checks, MaxChecks)}
    \cup {EmptyObject, [results |-> None], [results |-> EmptyObject]}
    \cup {[results |-> JsonString(s)] : s \in {<<>>, KeyChars("compliance") \o <<"x">>}}

Calls ==
    [fn : {"parse"}, state : {"pending"}, arg : ParseInputs]
    \cup [fn : {"_generate_job_name"}, state : {"pending"}, arg : JobNameInputs]
    \cup [fn : {"_normalize_severity"}, state : {"pending"}, arg : SeverityInputs]
    \cup [fn : {"_parse_vulnerabilities"}, state : {"pending"}, arg : VulnerabilityInputs]
    \cup [fn : {"_parse_compliance"}, state : {"pending"}, arg : ComplianceInputs]

InitFunctions ==
    /\ InitState
    /\ max_instances = 1
    /\ notify_threshold = DefaultThreshold
    /\ notification_topic = TRUE
    /\ fault_budget = MaxFaults
    /\ call \in Calls

\* everything but the call
handlers == <<now, ticks, faults, max_instances, notify_threshold, notification_topic,
              fault_budget, services, pc,
              images, idx, frame, done>>

\* ImageParser.parse(call.arg)
ParseCall ==
    /\ call.fn = "parse" /\ call.state = "pending"
    /\ call' = IF ParseRaises(call.arg)
               THEN [fn |-> "parse", state |-> "raised", arg |-> call.arg, result |-> "ValueError"]
               ELSE [fn |-> "parse", state |-> "returned", arg |-> call.arg,
                     result |-> ParseImage(call.arg)]
    /\ UNCHANGED handlers

\* _generate_job_name(registry, repository, tag) at the time call.arg.t
JobNameCall ==
    /\ call.fn = "_generate_job_name" /\ call.state = "pending"
    /\ call' = [fn |-> call.fn, state |-> "returned", arg |-> call.arg,
                result |-> GenerateJobName(call.arg.registry, call.arg.repository,
                                           call.arg.tag, call.arg.t)]
    /\ UNCHANGED handlers

\* _normalize_severity(call.arg)
NormalizeCall ==
    /\ call.fn = "_normalize_severity" /\ call.state = "pending"
    /\ call' = [fn |-> call.fn, state |-> "returned", arg |-> call.arg,
                result |-> NormalizeSeverity(PyStr(call.arg))]
    /\ UNCHANGED handlers

\* _parse_vulnerabilities(call.arg)
ParseVulnerabilitiesCall ==
    /\ call.fn = "_parse_vulnerabilities" /\ call.state = "pending"
    /\ call' = IF ParseVulnerabilitiesError(call.arg) # ""
               THEN [fn |-> call.fn, state |-> "raised", arg |-> call.arg,
                     result |-> ParseVulnerabilitiesError(call.arg)]
               ELSE [fn |-> call.fn, state |-> "returned", arg |-> call.arg,
                     result |-> ParseVulnerabilities(call.arg)]
    /\ UNCHANGED handlers

\* _parse_compliance(call.arg)
ParseComplianceCall ==
    /\ call.fn = "_parse_compliance" /\ call.state = "pending"
    /\ call' = IF ParseComplianceError(call.arg) # ""
               THEN [fn |-> call.fn, state |-> "raised", arg |-> call.arg,
                     result |-> ParseComplianceError(call.arg)]
               ELSE [fn |-> call.fn, state |-> "returned", arg |-> call.arg,
                     result |-> ParseCompliance(call.arg)]
    /\ UNCHANGED handlers

NextFunctions ==
    \/ ParseCall
    \/ JobNameCall
    \/ NormalizeCall
    \/ ParseVulnerabilitiesCall
    \/ ParseComplianceCall

SpecFunctions == InitFunctions /\ [][NextFunctions]_vars

(***************************************************************************)
(* Properties.                                                             *)
(***************************************************************************)
\* where an invocation is inside scan_image
ScanPcs ==
    {"scan", "create", "creating", "run", "starting", "poll", "status", "sleep", "logs",
     "cleanup",
     "deleting"}

\* where an invocation is inside the poll loop
PollPcs == {"poll", "status", "sleep"}

\* where an invocation is inside the loop over the images
LoopPcs == {"loop", "save", "save_doc", "alert", "img_error"} \cup ScanPcs

\* C1: whenever scan_image ends, by returning or by propagating a failure of
\* job creation, job start, polling or interpretation, delete_job has been
\* called exactly once in it, and its caller sees what was on its way before
\* the deletion, whether the deletion failed or not: the result is returned
\* (the handler builds the record from it), or the original failure is
\* propagated (the handler records that failure).
C1_OneDeletionOutcomeKept ==
    [][\A h \in Handlers :
          /\ deletes'[h] > deletes[h] =>
                /\ pc[h] = "cleanup"
                /\ deletes[h] = 0
                /\ deletes'[h] = 1
                /\ pc'[h] = "deleting"
                /\ scan_error'[h] = scan_error[h]
                /\ scan_result'[h] = scan_result[h]
          /\ (pc[h] \in ScanPcs /\ pc'[h] \notin ScanPcs) =>
                /\ pc[h] = "deleting"
                /\ deletes[h] = 1
                /\ deletes'[h] = 1
                /\ IF scan_error[h] = ""
                   THEN /\ pc'[h] = "save"
                        /\ result_record'[h].scan_id = scan_result[h].scan_id
                        /\ result_record'[h].vulnerabilities = scan_result[h].vulnerabilities
                   ELSE /\ pc'[h] = "img_error"
                        /\ error'[h] = scan_error[h]]_vars

\* C1 witness: scan_image has returned its result for the first image of an
\* event although the deletion failed (the job is still there)
C1_Witness ==
    \E h \in Handlers :
        /\ pc[h] = "save"
        /\ done[h] = <<>>
        /\ deletes[h] = 1
        /\ \E j \in jobs : j.owner = h

\* what became of the images whose scan timed out
TimedOut(h) == {i \in DOMAIN done[h] : done[h][i].error = "Timeout"}

\* the error records in the store, by image and error
StoredErrors(errs) == {[image |-> errs[k].image, error |-> errs[k].error] : k \in DOMAIN errs}

\* C2 (as amended): when the poll loop finds the time is up, scan_image fails
\* with Timeout; delete_job is still called; the handler calls save_error with
\* the Timeout for that image, and when that write succeeds the ErrorRecord
\* is in the store under its blob name, stamped with the time of the write;
\* no ScanRecord is written for the image; the handler goes on with the next
\* image and does not raise.
C2_TimeoutRecordedBatchGoesOn ==
    /\ [](\A h \in Handlers :
            /\ scan_error[h] = "Timeout" => pc[h] \in {"cleanup", "deleting", "img_error"}
            /\ (pc[h] = "img_error" /\ scan_error[h] = "Timeout") =>
                   (deletes[h] = 1 /\ error[h] = "Timeout")
            /\ \A i \in TimedOut(h) :
                   /\ done[h][i].outcome \in {"error_record", "error_record_failed"}
                   /\ pc[h] # "raised"
                   /\ idx[h] > i
                   /\ i < Len(images[h]) => pc[h] \in LoopPcs \/ Len(done[h]) > i)
    /\ [][\A h \in Handlers :
            /\ (pc[h] = "poll" /\ now - start_time[h] > ScanTimeout /\ pc'[h] # "poll") =>
                  (pc'[h] = "cleanup" /\ scan_error'[h] = "Timeout")
            /\ (pc[h] = "img_error" /\ error[h] = "Timeout" /\ done'[h] # done[h]) =>
                  LET error_info == ErrorInfo(image(h), "Timeout", now)
                  IN  /\ metadata' = metadata
                      /\ saves' = saves
                      /\ done'[h][idx[h]].outcome = "error_record" =>
                             /\ ErrorBlobName(error_info) \in DOMAIN errors'
                             /\ errors'[ErrorBlobName(error_info)] = error_info
                      /\ done'[h][idx[h]].outcome = "error_record_failed" =>
                             errors' = errors]_vars

\* C2 witness: the first image of an event timed out, its ErrorRecord is
\* stored, and the handler is scanning the second image
C2_Witness ==
    \E h \in Handlers :
        /\ Len(done[h]) = 1
        /\ done[h][1] = [outcome |-> "error_record", error |-> "Timeout"]
        /\ [image |-> images[h][1], error |-> "Timeout"] \in StoredErrors(errors)
        /\ pc[h] \in ScanPcs

\* C2 as stated: an ErrorRecord is written for every image whose scan timed out
C2_Original ==
    \A h \in Handlers : \A i \in TimedOut(h) : done[h][i].outcome = "error_record"

\* C3: process_cloudrun_event raises only before the loop; once in the loop
\* it handles the images in order, one outcome per image, and when it returns
\* it has processed every image of the event, whatever failed on the way, a
\* failed write of an ErrorRecord included.
C3_EveryImageProcessed ==
    \A h \in Handlers :
        /\ pc[h] = "raised" => (images[h] = <<>> /\ done[h] = <<>>)
        /\ pc[h] \in LoopPcs =>
               /\ idx[h] = Len(done[h]) + 1
               /\ idx[h] <= Len(images[h])
        /\ (pc[h] = "returned" /\ images[h] # <<>>) => Len(done[h]) = Len(images[h])

\* C3 witness: the ErrorRecord of the first image could not be written, and
\* the handler has returned after processing the second image
C3_Witness ==
    \E h \in Handlers :
        /\ pc[h] = "returned"
        /\ Len(done[h]) = 2
        /\ done[h][1].outcome = "error_record_failed"

\* the documents the store holds for exactly this raw image string, written
\* at or after the start of the cache window that ends at t
RecordsOfRawImage(raw, t) ==
    {k \in DOMAIN metadata :
        /\ metadata[k].image = raw
        /\ StrGeq(metadata[k].timestamp_str, IsoFormat(t - WindowSeconds))}

\* C4 as stated: an event that carries a raw image string for which an earlier
\* event persisted a ScanRecord within the cache window, with no storage
\* error, does not invoke the orchestrator for it. (The handler is at the
\* first image of its event and has just passed the recency check, so every
\* record in the store comes from an earlier event.)
C4_Original ==
    \A h \in Handlers :
        (pc[h] = "create" /\ done[h] = <<>> /\ faults = 0) =>
            RecordsOfRawImage(image(h), now) = {}

\* the names is_recently_scanned is called with, and the raw strings
QueriedNames ==
    ImageStrings \cup {ParseImage(s).full_name : s \in {r \in ImageStrings : ~ParseRaises(r)}}

\* C5: a failed query makes is_recently_scanned return false, whatever the
\* store holds, and the handler whose query for a well-formed image failed
\* goes on to scan_image for that image: it neither skips the image nor
\* records an error for it.
C5_FailOpen ==
    [][\A h \in Handlers :
          /\ \A name \in QueriedNames : ~is_recently_scanned(metadata, name, now, "failed")
          /\ (/\ pc[h] = "loop"
              /\ pc'[h] # "loop" \/ idx'[h] # idx[h]
              /\ ~ParseRaises(image(h))
              /\ faults' = faults + 1) =>
                 /\ pc'[h] = "scan"
                 /\ idx'[h] = idx[h]
                 /\ done'[h] = done[h]
                 /\ error'[h] = ""
                 /\ errors' = errors
          /\ (pc[h] = "scan" /\ pc'[h] # "scan") =>
                 /\ pc'[h] = "create"
                 /\ idx'[h] = idx[h]
                 /\ job_name'[h] # NoJobName]_vars

\* C5 witness: the store holds a record of the image within the window, the
\* only failure so far is that of the query, and the handler is in scan_image
C5_Witness ==
    \E h \in Handlers :
        /\ pc[h] = "create"
        /\ faults = 1
        /\ RecentDocs(metadata, ParseImage(image(h)).full_name, now) # {}

\* the number two ISO digits stand for
Num2(s, i) == (Ord(s[i]) - 2) * 10 + (Ord(s[i + 1]) - 2)

\* the clock value an isoformat string of the model's month stands for
TimeOf(s) ==
    (Num2(s, 9) - 1) * 86400 + Num2(s, 12) * 3600 + Num2(s, 15) * 60 + Num2(s, 18)

\* does the store hold a record of this name whose timestamp, as a time, is
\* at or after t minus the window
RecordInWindow(name, t) ==
    \E k \in DOMAIN metadata :
        /\ metadata[k].sanitized_image_name = SanitizeName(name)
        /\ TimeOf(metadata[k].timestamp_str) >= t - WindowSeconds

C7_Original ==
    \A g, h \in Handlers :
        (g # h /\ job_name[g] # NoJobName /\ job_name[h] # NoJobName) =>
            job_name[g] # job_name[h]

\* C8 as stated: every save_scan_result that succeeded wrote a key of its
\* own, so the store holds as many records as there were successful saves
C8_Original == Cardinality(DOMAIN metadata) = saves

\* C9 as stated: when the retrieval of the execution logs fails, scan_image
\* has a failure to propagate once cleanup is done
C9_Original ==
    [][\A h \in Handlers :
          (pc[h] = "logs" /\ pc'[h] # "logs" /\ faults' = faults + 1) =>
              scan_error'[h] # ""]_vars

\* C10 as stated: the record built from the result of scan_image has status
\* PARSE_ERROR when the output could not be decoded, and COMPLETED only when
\* it was decoded
C10_Original ==
    \A h \in Handlers :
        pc[h] = "save" =>
            /\ ~scan_output[h].json => result_record[h].status = "PARSE_ERROR"
            /\ result_record[h].status = "COMPLETED" => scan_output[h].json

\* C11 as stated: whatever output was retrieved, the interpretation inside
\* scan_image yields a result: scan_image has no failure to propagate once
\* it holds an output
C11_Original ==
    \A h \in Handlers :
        (pc[h] = "cleanup" /\ scan_output[h] # NoOutput) => scan_error[h] = ""

\* the severity counts meet the threshold
MeetsThreshold(vulnerabilities, threshold) ==
    \/ threshold = "HIGH" /\ vulnerabilities.CRITICAL + vulnerabilities.HIGH > 0
    \/ threshold = "CRITICAL" /\ vulnerabilities.CRITICAL > 0

\* the step of h wrote the record of h into the metadata store
Persisted(h) ==
    /\ saves' = saves + 1
    /\ result_record[h].scan_id \in DOMAIN metadata'
    /\ metadata'[result_record[h].scan_id] = MetadataDoc(result_record[h])

\* C12: when the handler is done with save_scan_result for an image, it goes
\* on to send_alert exactly when the record was persisted and its severity
\* counts meet the configured threshold (HIGH: CRITICAL + HIGH > 0, CRITICAL:
\* CRITICAL > 0); with no CRITICAL and no HIGH finding it never does; with the
\* output of one finding of severity "5" persisted under the default
\* threshold it does; and send_alert is called from nowhere else.
C12_AlertIffPersistedAndSevere ==
    [][\A h \in Handlers :
          /\ (pc[h] = "save_doc" /\ pc'[h] # "save_doc") =>
                /\ pc'[h] = "alert" <=>
                       (Persisted(h) /\
                        MeetsThreshold(result_record[h].vulnerabilities, notify_threshold))
                /\ (/\ result_record[h].vulnerabilities.CRITICAL = 0
                    /\ result_record[h].vulnerabilities.HIGH = 0) => pc'[h] # "alert"
                /\ (/\ scan_output[h] = [json |-> TRUE, type |-> "object",
                                         value |-> [vulnerabilities |-> <<FindingSeverity5>>]]
                    /\ notify_threshold = DefaultThreshold
                    /\ Persisted(h)) => pc'[h] = "alert"
          /\ (pc[h] # "save_doc" /\ pc[h] # "alert") => pc'[h] # "alert"
          /\ alerts' # alerts => \E g \in Handlers : pc[g] = "alert" /\ pc'[g] # "alert"]_vars

\* C12 witness: under the default threshold the record of an output with one
\* finding of severity "5" has been persisted and an alert is about to be sent
C12_Witness ==
    \E h \in Handlers :
        /\ pc[h] = "alert"
        /\ notify_threshold = DefaultThreshold
        /\ scan_output[h].json /\ scan_output[h].type = "object"
        /\ scan_output[h].value = [vulnerabilities |-> <<FindingSeverity5>>]
        /\ result_record[h].vulnerabilities.CRITICAL = 1
        /\ result_record[h].scan_id \in DOMAIN metadata

\* the names of the create-service and update-service operations
DeploymentOperations == {CreateService, UpdateService}

\* the events the claim has the handler do nothing for: no payload, a method
\* name that is not one of the two operations, a deployment without a
\* container image
NoOpEvents ==
    {event \in Events :
        \/ event.data = "absent"
        \/ /\ event.data = "ok"
           /\ \/ event.methodName \notin DeploymentOperations
              \/ \A i \in DOMAIN event.containers : event.containers[i] = NoImage}

\* the invocation h has left no trace in the services
NoTrace(h) ==
    /\ done[h] = <<>>
    /\ \A j \in jobs : j.owner # h
    /\ \A a \in alerts : a[1] # h

\* C13 as stated: handling an event with no payload, with a method name that
\* is not a create-service or update-service operation, or with no container
\* image is a no-op: the handler returns, whether or not the scanner and the
\* storage could be constructed (they are not), and the step creates no job,
\* writes no ScanRecord or ErrorRecord, sends no alert and makes no failing
\* call.
C13_Original ==
    [][\A h \in Handlers :
          /\ (pc[h] = "idle" /\ pc'[h] # "idle") =>
                \A event \in NoOpEvents, init \in {"ok", "failed"} :
                    HandleEvent(h, event, init) =>
                        /\ pc'[h] = "returned"
                        /\ images'[h] = <<>>
                        /\ faults' = faults
                        /\ UNCHANGED <<jobs, metadata, blobs, errors, alerts, saves>>
          /\ (pc'[h] = "returned" /\ images'[h] = <<>>) => NoTrace(h)']_vars

\* the events that fail as a whole: the payload cannot be decoded
MalformedEvents == {event \in Events : event.data = "malformed"}

\* the deployments that carry an image
DeploymentEvents ==
    {event \in Events :
        /\ event.data = "ok"
        /\ \E operation \in DeploymentOperations : Contains(event.methodName, operation)
        /\ \E i \in DOMAIN event.containers : event.containers[i] # NoImage}

\* C14: when the payload cannot be decoded, or constructing the scanner or
\* the storage handler raises, process_cloudrun_event raises to its caller,
\* and neither that step nor the invocation creates a scan job.
C14_WholeEventFailureRaised ==
    [][\A h \in Handlers :
          /\ (pc[h] = "idle" /\ pc'[h] # "idle") =>
                /\ \A event \in MalformedEvents, init \in {"ok", "failed"} :
                      HandleEvent(h, event, init) => (pc'[h] = "raised" /\ jobs' = jobs)
                /\ \A event \in DeploymentEvents :
                      HandleEvent(h, event, "failed") => (pc'[h] = "raised" /\ jobs' = jobs)
          /\ pc'[h] = "raised" => NoTrace(h)']_vars

\* C14 witness: constructing the storage handler failed for the first event
\* and its handler has raised; no job exists
C14_Witness ==
    /\ pc["h1"] = "raised"
    /\ faults = 1
    /\ jobs = {}

\* C15 as stated: ImageParser.parse returns for every input string
C15_Original ==
    (call.fn = "parse" /\ call.state # "pending") => call.state = "returned"

\* the part of an image string before its digest
NamePart(s) ==
    IF Contains(s, Sha256Marker) THEN SubSeq(s, 1, FirstIndex(s, Sha256Marker) - 1) ELSE s

\* the last path segment of a name
LastSegment(s) == IF Contains(s, <<"/">>) THEN Drop(s, LastIndex(s, <<"/">>) + 1) ELSE s

\* an image string carries a tag when the last path segment of its name has a colon
HasExplicitTag(s) == Contains(LastSegment(NamePart(s)), <<":">>)

HostPortImage == <<"l", "o", "c", "a", "l", "h", "o", "s", "t", ":", "5", "0", "0", "0", "/", "a", "p", "p">>

\* C16 as stated: for every image string without an explicit tag parse
\* returns the tag "latest", and for "localhost:5000/app" the registry is
\* "localhost:5000" and the repository "app"
C16_Original ==
    (call.fn = "parse" /\ call.state = "returned") =>
        /\ ~HasExplicitTag(call.arg) => call.result.tag = Latest
        /\ call.arg = HostPortImage =>
               /\ call.result.registry = <<"l", "o", "c", "a", "l", "h", "o", "s", "t", ":", "5", "0", "0", "0">>
               /\ call.result.repository = <<"a", "p", "p">>

\* C17: when parse returns for an image string with a digest marker, the
\* digest is "sha256:" followed by everything after the marker, and the full
\* name is registry/repository@digest and not registry/repository:tag,
\* whether or not the string carries a tag; when it returns for a string
\* without a marker there is no digest and the full name is
\* registry/repository:tag. (parse does not return for a string with two
\* markers: C15.)
C17_DigestPrecedence ==
    (call.fn = "parse" /\ call.state = "returned") =>
        LET r == call.result
            tagForm == r.registry \o <<"/">> \o r.repository \o <<":">> \o r.tag
        IN  IF Contains(call.arg, Sha256Marker)
            THEN /\ r.digest = Sha256Prefix \o
                        Drop(call.arg, FirstIndex(call.arg, Sha256Marker) + Len(Sha256Marker))
                 /\ r.full_name = r.registry \o <<"/">> \o r.repository \o <<"@">> \o r.digest
                 /\ r.full_name # tagForm
            ELSE /\ r.digest = NoDigest
                 /\ r.full_name = tagForm

\* C17 witness: parse has returned for "app:v1@sha256:ab12", a string with a
\* tag and a digest
C17_Witness ==
    /\ call.fn = "parse" /\ call.state = "returned"
    /\ call.arg = <<"a", "p", "p", ":", "v", "1">> \o Sha256Marker \o <<"a", "b", "1", "2">>
    /\ call.result.tag = <<"v", "1">>
    /\ call.result.digest = Sha256Prefix \o <<"a", "b", "1", "2">>

JobNameChars == Range(Digits) \cup Range(Lowers) \cup {"-"}

\* C18 as stated: a job name has characters of [a-z0-9-] only, is at most 63
\* long and ends with a hyphen and 14 digits
C18_Original ==
    (call.fn = "_generate_job_name" /\ call.state = "returned") =>
        LET name == call.result
        IN  /\ Len(name) <= 63
            /\ \A i \in DOMAIN name : name[i] \in JobNameChars
            /\ Len(name) >= 15
            /\ name[Len(name) - 14] = "-"
            /\ \A i \in (Len(name) - 13)..Len(name) : name[i] \in Range(Digits)

SeverityBuckets == <<SevInformational, SevLow, SevMedium, SevHigh, SevCritical>>

SeverityKeywords ==
    {<<"C", "R", "I", "T">>, <<"H", "I", "G", "H">>, <<"M", "E", "D">>, <<"L", "O", "W">>,
     <<"I", "N", "F", "O">>}

\* the severity is the code k, as a number or as a string
IsCode(severity, k) ==
    \/ severity.type = "int" /\ severity.value = k
    \/ severity.type = "str" /\ severity.value = <<Digits[k + 1]>>

\* the severity is no code and holds no keyword
Unrecognised(severity) ==
    /\ \A k \in 1..5 : ~IsCode(severity, k)
    /\ \A kw \in SeverityKeywords : ~Contains(Upper(PyStr(severity)), kw)

\* C19: _normalize_severity returns one of CRITICAL, HIGH, MEDIUM, LOW and
\* INFORMATIONAL for every input; the codes 1..5 give INFORMATIONAL..CRITICAL,
\* an input that is no code and holds no keyword gives MEDIUM; and
\* normalizing the result gives the result again.
C19_NormalizeTotalIdempotent ==
    (call.fn = "_normalize_severity" /\ call.state = "returned") =>
        /\ call.result \in Range(SeverityBuckets)
        /\ \A k \in 1..5 : IsCode(call.arg, k) => call.result = SeverityBuckets[k]
        /\ Unrecognised(call.arg) => call.result = SevMedium
        /\ NormalizeSeverity(call.result) = call.result

\* C19 witness: the severity "lowcrit", with two keywords in lower case, has
\* been normalized to CRITICAL
C19_Witness ==
    /\ call.fn = "_normalize_severity" /\ call.state = "returned"
    /\ call.arg.type = "str"
    /\ call.arg.value = <<"l", "o", "w", "c", "r", "i", "t">>
    /\ call.result = SevCritical

\* C20: an invocation in the poll loop leaves it, whatever the executor
\* shows; the loop never runs beyond one poll interval after the timeout; and
\* once the elapsed time is greater than scan_timeout the next iteration
\* raises Timeout without a status check: no call fails and no time passes,
\* and a status check is under way only while the time is not up.
C20_PollLoopTerminates ==
    /\ \A h \in Handlers : (pc[h] \in PollPcs) ~> (pc[h] \notin PollPcs)
    /\ [](\A h \in Handlers :
            /\ pc[h] \in PollPcs => now - start_time[h] <= ScanTimeout + poll_interval
            /\ pc[h] = "status" => now - start_time[h] <= ScanTimeout)
    /\ [][\A h \in Handlers :
            (pc[h] = "poll" /\ now - start_time[h] > ScanTimeout) =>
                /\ pc'[h] = "cleanup"
                /\ scan_error'[h] = "Timeout"
                /\ faults' = faults
                /\ now' = now]_vars

\* C20 witness: the executor never showed a completion, the loop slept twice
\* and has raised Timeout
C20_Witness ==
    \E h \in Handlers :
        /\ pc[h] = "cleanup"
        /\ scan_error[h] = "Timeout"
        /\ now - start_time[h] = 2 * poll_interval

\* C21 as stated: the poll loop is left only by an observed completion, by
\* the Unexpected-State error or by Timeout
C21_Original ==
    [][\A h \in Handlers :
          (pc[h] \in PollPcs /\ pc'[h] \notin PollPcs) =>
              \/ pc'[h] = "logs"
              \/ pc'[h] = "cleanup" /\ scan_error'[h] \in {"UnexpectedState", "Timeout"}]_vars

\* C21 (as amended): while the time is not up, a status check that raises a
\* GoogleAPIError does not end the poll loop: the loop sleeps one interval
\* and polls again, and nothing is propagated; a completion with a succeeded
\* or a failed task, after any number of such checks, makes the scan go on to
\* the log retrieval; and the loop is left only by such a completion, by the
\* Unexpected-State error, by Timeout, or by a status check that raises
\* something that is no GoogleAPIError.
C21_ApiErrorRetried ==
    [][\A h \in Handlers :
          /\ (pc[h] = "poll" /\ now - start_time[h] <= ScanTimeout /\ pc'[h] # "poll") =>
                (pc'[h] = "status" /\ now' = now /\ faults' = faults)
          /\ pc[h] = "status" =>
                /\ now - start_time[h] <= ScanTimeout
                /\ GetExecution(h, "api_error") =>
                      /\ pc'[h] = "sleep"
                      /\ wake'[h] = now + poll_interval
                      /\ retries'[h] = retries[h] + 1
                      /\ scan_error'[h] = ""
                      /\ faults' = faults
                /\ \A status \in {"succeeded", "failed"} :
                      GetExecution(h, status) => (pc'[h] = "logs" /\ scan_error'[h] = "")
          /\ (pc[h] = "sleep" /\ pc'[h] # "sleep") =>
                /\ pc'[h] = "poll"
                /\ now' = now + poll_interval
                /\ scan_error'[h] = ""
                /\ faults' = faults
          /\ (pc[h] \in PollPcs /\ pc'[h] \notin PollPcs) =>
                \/ pc'[h] = "logs" /\ now - start_time[h] <= ScanTimeout
                \/ /\ pc'[h] = "cleanup" /\ scan_error'[h] = "UnexpectedState"
                   /\ now - start_time[h] <= ScanTimeout
                \/ /\ pc'[h] = "cleanup" /\ scan_error'[h] = "Timeout"
                   /\ now - start_time[h] > ScanTimeout
                \/ /\ pc'[h] = "cleanup" /\ scan_error'[h] = "StatusError"
                   /\ faults' = faults + 1]_vars

\* C21 witness: a status check raised a GoogleAPIError, the loop polled again
\* and saw the completion: the scan is about to retrieve the logs
C21_Witness ==
    \E h \in Handlers :
        /\ pc[h] = "logs"
        /\ retries[h] = 1
        /\ scan_error[h] = ""
        /\ now - start_time[h] = poll_interval

\* C22 as stated: a status check that shows a completion with a succeeded
\* task, or with failed tasks only, makes the scan go on to the log retrieval,
\* and the scan then ends in a result and not in an error; a completion with
\* neither makes the scan fail with the Unexpected-State error, and when the
\* handler is done with that image the ErrorRecord of that error is stored.
C22_Original ==
    [][\A h \in Handlers :
          /\ (pc[h] = "status" /\ now - start_time[h] <= ScanTimeout) =>
                /\ \A status \in {"succeeded", "failed"} :
                      GetExecution(h, status) => (pc'[h] = "logs" /\ scan_error'[h] = "")
                /\ GetExecution(h, "neither") =>
                      (pc'[h] = "cleanup" /\ scan_error'[h] = "UnexpectedState")
          /\ (pc[h] = "logs" /\ pc'[h] # "logs") =>
                (scan_error'[h] = "" /\ scan_result'[h].status = "COMPLETED")
          /\ (pc[h] = "img_error" /\ error[h] = "UnexpectedState" /\ pc'[h] # "img_error") =>
                [image |-> image(h), error |-> "UnexpectedState"] \in StoredErrors(errors')]_vars

\* the jobs the invocation h created that still exist
JobsOf(h) == {j \in jobs : j.owner = h}

\* the outcomes in which a ScanRecord was written
ScanRecordOutcomes ==
    {"scan_record", "scan_record_alert", "scan_record_alert_logged", "scan_record_alert_failed"}

\* C23 as stated: when the job of an image is created, every earlier image of
\* the event that was not skipped has its ScanRecord or its ErrorRecord
\* written, and the invocation has no other job: it never has two jobs.
C23_Original ==
    \A h \in Handlers :
        pc[h] \in {"creating", "run", "starting", "poll", "status", "sleep", "logs"} =>
            /\ \A i \in 1..(idx[h] - 1) :
                   done[h][i].outcome \in ScanRecordOutcomes \cup {"error_record", "skipped"}
            /\ Cardinality(JobsOf(h)) <= 1

\* C23 (as amended): an invocation handles its images one at a time and in
\* the order of the list; create_job and run_job are called at most once per
\* image; a job is created only by the invocation that is at the create step
\* for an image it has not attempted yet, all earlier images being done; and
\* when the handler is done with an image, delete_job has been called once
\* if create_job was called for it and not otherwise, and the image was
\* skipped without a job, or its ScanRecord is in the store, or save_error
\* was called for it, its ErrorRecord being in the store unless that write
\* failed.
C23_SequentialSingleAttempt ==
    /\ [](\A h \in Handlers :
            /\ attempts[h].create <= 1
            /\ attempts[h].run <= attempts[h].create
            /\ pc[h] \in {"creating", "run", "starting", "poll", "status", "sleep", "logs"} =>
                  (attempts[h].create = 1 /\ Len(done[h]) = idx[h] - 1))
    /\ [][\A h \in Handlers :
            /\ JobsOf(h)' # JobsOf(h) /\ JobsOf(h) \subseteq JobsOf(h)' =>
                  /\ pc[h] = "create" /\ pc'[h] = "creating"
                  /\ attempts[h] = NoAttempts
                  /\ Cardinality(JobsOf(h)') = Cardinality(JobsOf(h)) + 1
            /\ (pc[h] # "idle" /\ idx'[h] # idx[h]) =>
                  LET outcome == done'[h][idx[h]].outcome
                  IN  /\ pc[h] \in LoopPcs
                      /\ idx'[h] = idx[h] + 1
                      /\ Len(done'[h]) = idx[h]
                      /\ deletes[h] = attempts[h].create
                      /\ outcome = "skipped" => (attempts[h] = NoAttempts /\ pc[h] = "loop")
                      /\ outcome \in ScanRecordOutcomes =>
                             /\ attempts[h] = [create |-> 1, run |-> 1]
                             /\ result_record[h].scan_id \in DOMAIN metadata'
                      /\ outcome = "error_record" =>
                             [image |-> image(h), error |-> error[h]] \in StoredErrors(errors')
                      /\ outcome = "error_record_failed" =>
                             (pc[h] = "img_error" /\ faults' = faults + 1)]_vars

\* C23 witness: the deletion of the first image's job failed, its ScanRecord
\* is written, and the job of the second image has been created and started
C23_Witness ==
    \E h \in Handlers :
        /\ pc[h] = "poll"
        /\ idx[h] = 2
        /\ done[h][1].outcome \in ScanRecordOutcomes
        /\ Cardinality(JobsOf(h)) = 2
        /\ attempts[h] = [create |-> 1, run |-> 1]

\* C24: when the call of send_alert is made and the sending fails (which
\* takes a configured topic: with none, nothing is published and nothing
\* fails), the step of the handler neither raises nor goes to the error
\* path: it goes on with the next image, or returns after the last one; the
\* ScanRecord persisted for the image is in the store as it was, no
\* ErrorRecord is written, no alert is counted as sent; and no ErrorRecord in
\* the store ever stems from an alert.
C24_AlertFailureSwallowed ==
    /\ [][\A h \in Handlers :
            /\ (pc[h] = "alert" /\ pc'[h] # "alert" /\ ~notification_topic) =>
                  (faults' = faults /\ alerts' = alerts)
            /\ (pc[h] = "alert" /\ pc'[h] # "alert" /\ faults' # faults) =>
                /\ notification_topic
                /\ pc'[h] = IF idx[h] < Len(images[h]) THEN "loop" ELSE "returned"
                /\ idx'[h] = idx[h] + 1
                /\ done'[h] = Append(done[h], [outcome |-> "scan_record_alert_failed",
                                               error |-> ""])
                /\ UNCHANGED <<metadata, blobs, errors, alerts, saves>>
                /\ result_record[h].scan_id \in DOMAIN metadata'
                /\ metadata'[result_record[h].scan_id] = MetadataDoc(result_record[h])]_vars
    /\ [](\A h \in Handlers :
            /\ \A e \in StoredErrors(errors) : e.error # "AlertFailed"
            /\ \A i \in DOMAIN done[h] :
                   done[h][i].outcome = "scan_record_alert_failed" =>
                       /\ pc[h] # "raised"
                       /\ done[h][i].error = ""
                       /\ i < Len(images[h]) => (pc[h] \in LoopPcs \/ Len(done[h]) > i))

\* C24 witness: the alert for the first image failed, and the handler has
\* persisted the ScanRecord of the second image
C24_Witness ==
    \E h \in Handlers :
        /\ Len(done[h]) = 2
        /\ done[h][1].outcome = "scan_record_alert_failed"
        /\ done[h][2].outcome = "scan_record"
        /\ pc[h] = "returned"
        /\ Cardinality(DOMAIN metadata) = 2
        /\ errors = NoDocs

\* the outcomes in which save_error was called
ErrorRecordOutcomes == {"error_record", "error_record_failed"}

\* C25: the handler is done with an image in exactly one step, which adds
\* exactly one outcome for it: skipped by the recency check, and then no job
\* was created and the step writes nothing; or a ScanRecord, its metadata
\* document being in the store; or an ErrorRecord, save_error having been
\* called. The step that writes the metadata document of an image never
\* leads to the error path, and the error path never leads to a save or to
\* an alert, so no processing of an image has both; an ErrorRecord is
\* written on the error path only, and an alert is sent only for an image
\* whose metadata document is in the store.
C25_OneOutcomePerImage ==
    [][\A h \in Handlers :
          /\ done'[h] # done[h] =>
                LET outcome == done'[h][idx[h]].outcome
                IN  /\ pc[h] \in LoopPcs
                    /\ idx'[h] = idx[h] + 1
                    /\ Len(done[h]) = idx[h] - 1
                    /\ done'[h] = Append(done[h], done'[h][idx[h]])
                    /\ outcome \in {"skipped"} \cup ScanRecordOutcomes \cup ErrorRecordOutcomes
                    /\ outcome = "skipped" =>
                          /\ pc[h] = "loop"
                          /\ attempts[h] = NoAttempts
                          /\ UNCHANGED <<jobs, metadata, blobs, errors, alerts>>
                    /\ outcome \in ScanRecordOutcomes =>
                          /\ pc[h] \in {"save_doc", "alert"}
                          /\ result_record[h].scan_id \in DOMAIN metadata'
                          /\ metadata'[result_record[h].scan_id] = MetadataDoc(result_record[h])
                          /\ errors' = errors
                    /\ outcome \in ErrorRecordOutcomes =>
                          /\ pc[h] = "img_error"
                          /\ metadata' = metadata
                          /\ alerts' = alerts
                          /\ outcome = "error_record" =>
                                [image |-> image(h), error |-> error[h]]
                                    \in StoredErrors(errors')
                          /\ outcome = "error_record_failed" => errors' = errors
          /\ (pc[h] = "save_doc" /\ metadata' # metadata) => pc'[h] # "img_error"
          /\ pc[h] = "save" => metadata' = metadata
          /\ pc[h] = "alert" => pc'[h] \in {"alert", "loop", "returned"}
          /\ pc[h] = "img_error" => pc'[h] \in {"img_error", "loop", "returned"}
          /\ (pc'[h] = "img_error" /\ pc[h] # "img_error") =>
                (metadata' = metadata /\ pc[h] \in {"loop", "deleting", "save", "save_doc"})
          /\ errors' # errors => \E g \in Handlers : pc[g] = "img_error" /\ done'[g] # done[g]
          /\ alerts' # alerts =>
                \E g \in Handlers :
                    /\ pc[g] = "alert"
                    /\ done'[g][idx[g]].outcome = "scan_record_alert"
                    /\ result_record[g].scan_id \in DOMAIN metadata]_vars

\* C25 witness: the result blob of an image was uploaded, the write of its
\* metadata document failed, and the image ended with an ErrorRecord and no
\* metadata document
C25_Witness ==
    \E h \in Handlers :
        /\ Len(done[h]) >= 1
        /\ done[h][1] = [outcome |-> "error_record", error |-> "SaveFailed"]
        /\ blobs # {}
        /\ metadata = NoDocs
        /\ [image |-> images[h][1], error |-> "SaveFailed"] \in StoredErrors(errors)

\* C26 as stated: the cleanup of a scan attempt deletes only a job that this
\* attempt created: every job that a step removes belongs to the invocation
\* whose cleanup the step is
C26_Original ==
    [][\A j \in jobs \ jobs' :
          \E h \in Handlers :
              /\ pc[h] = "cleanup" /\ pc'[h] # "cleanup"
              /\ j.owner = h]_vars

\* C27 as stated: when the handler persists a record with status COMPLETED
\* and no finding, the output of the scanner was retrieved and decoded and
\* held no finding
C27_Original ==
    [][\A h \in Handlers :
          (/\ pc[h] = "save_doc"
           /\ Persisted(h)
           /\ metadata'[result_record[h].scan_id].status = "COMPLETED"
           /\ metadata'[result_record[h].scan_id].vuln_total = 0) =>
              /\ scan_output[h].json
              /\ LookupList(scan_output[h].value, "vulnerabilities") = <<>>]_vars

\* the id a finding or a check of the inputs carries: each has one that is
\* not empty, under one of the two names
CarriedId(d, first, second) ==
    IF first \in DOMAIN d /\ Len(d[first]) > 0 THEN d[first] ELSE d[second]

\* the list an output holds under the key, at the top level or else in the
\* object under 'results'
ListOf(output, key) ==
    IF key \in DOMAIN output THEN output[key]
    ELSE IF "results" \in DOMAIN output /\ key \in DOMAIN output.results
         THEN output.results[key]
         ELSE <<>>

\* the checks of a list whose status is one of the words in any case: its
\* upper-cased form is the word
WithStatus(checks, words) ==
    {i \in DOMAIN checks :
        /\ "status" \in DOMAIN checks[i]
        /\ checks[i].status.type = "str"
        /\ Upper(checks[i].status.value) \in words}

\* C28: when _parse_vulnerabilities returns for a list of findings, total is
\* the sum of the five severity counts, the number of detail records and the
\* number of findings, and the details are in the order of the findings;
\* when _parse_compliance returns for a list of checks, total is the number
\* of check records and of checks, the records are in the order of the
\* checks, passed counts exactly the checks whose status is PASS or PASSED in
\* any case, failed exactly those whose status is FAIL or FAILED, and
\* passed + failed is at most total.
C28_SummaryCounts ==
    /\ (call.fn = "_parse_vulnerabilities" /\ call.state = "returned") =>
          LET r == call.result
              findings == ListOf(call.arg, "vulnerabilities")
          IN  /\ r.total = r.CRITICAL + r.HIGH + r.MEDIUM + r.LOW + r.INFORMATIONAL
              /\ r.total = Len(r.details)
              /\ r.total = Len(findings)
              /\ \A i \in DOMAIN findings :
                     r.details[i].qid = CarriedId(findings[i], "qid", "id")
    /\ (call.fn = "_parse_compliance" /\ call.state = "returned") =>
          LET r == call.result
              checks == ListOf(call.arg, "compliance")
          IN  /\ r.total = Len(r.checks)
              /\ r.total = Len(checks)
              /\ r.passed + r.failed <= r.total
              /\ r.passed = Cardinality(WithStatus(checks,
                                {<<"P", "A", "S", "S">>, <<"P", "A", "S", "S", "E", "D">>}))
              /\ r.failed = Cardinality(WithStatus(checks,
                                {<<"F", "A", "I", "L">>, <<"F", "A", "I", "L", "E", "D">>}))
              /\ \A i \in DOMAIN checks :
                     r.checks[i].id = CarriedId(checks[i], "id", "checkId")

\* C28 witness: _parse_compliance has returned for the checks with the
\* statuses "passed", "Passing" and "Fail": one passed, one failed, three in all
C28_Witness ==
    /\ call.fn = "_parse_compliance" /\ call.state = "returned"
    /\ "compliance" \in DOMAIN call.arg
    /\ Len(call.arg.compliance) = 3
    /\ call.arg.compliance[1] = [checkId |-> <<"c", "2">>, status |-> JsonString(<<"p", "a", "s", "s", "e", "d">>)]
    /\ call.arg.compliance[2] = [id |-> <<"c", "5">>, status |-> JsonString(<<"P", "a", "s", "s", "i", "n", "g">>)]
    /\ call.arg.compliance[3] = [id |-> <<"c", "3">>, status |-> JsonString(<<"F", "a", "i", "l">>)]
    /\ call.result.passed = 1 /\ call.result.failed = 1 /\ call.result.total = 3

====
